---------------------------- MODULE Spec2Model ----------------------------
(***************************************************************************)
(* Listing screens of the reader firmware: the catalog browser             *)
(* (OpdsBookBrowserActivity) and the news sync screen (NewsSyncActivity),  *)
(* each run by two tasks: the input task, which executes loop() and every  *)
(* handler loop() calls, and the display task, which executes              *)
(* displayTaskLoop() and render().                                         *)
(*                                                                         *)
(* A handler is a function from the fields before to the fields after, so  *)
(* that a handler calling another is function composition, as in the code. *)
(* The input task is suspended inside HttpDownloader::fetchUrl and         *)
(* HttpDownloader::downloadToFile; those are the only places where a       *)
(* handler is split in two steps.  The display task is preemptively        *)
(* scheduled against it and is modelled read by read.                      *)
(***************************************************************************)
EXTENDS Integers, Sequences, FiniteSets, TLC

(***************************************************************************)
(* Program constants                                                       *)
(***************************************************************************)
PAGE_ITEMS == 23

OPDS_ROOT_PATH == "opds"

\* SETTINGS.opdsNewsPath as configured for the runs of this model
NEWS_FEED_PATH == "news"

\* size_t is 32 bits wide on the target: 2^32 = SizeHalf * SizeHalf
SizeHalf == 65536

(***************************************************************************)
(* Bounds                                                                  *)
(***************************************************************************)
\* navigateToEntry is not taken once the history holds this many locations
MaxDepth == 2

\* the longest listing of the specification of the selector moves
MaxEntries == 50

(***************************************************************************)
(* The catalog server: what a listing location answers when the fetch and  *)
(* the parse succeed.                                                      *)
(***************************************************************************)
NoHref == [base |-> "", ext |-> ""]

NavEntry(title, path) ==
  [type |-> "NAVIGATION", title |-> title, href |-> [base |-> path, ext |-> ""], hrefXtc |-> NoHref]

BookEntry(title, ext, xtcExt) ==
  [type |-> "BOOK", title |-> title, href |-> [base |-> title, ext |-> ext],
   hrefXtc |-> IF xtcExt = "" THEN NoHref ELSE [base |-> title, ext |-> xtcExt]]

Catalog ==
  [p \in {"opds", "shelf", "empty", "news"} |->
     CASE p = "opds"  -> << NavEntry("Empty", "empty"), NavEntry("Shelf", "shelf"), BookEntry("A", ".epub", ".xtc") >>
       [] p = "shelf" -> << NavEntry("Up", "opds"), BookEntry("A", ".epub", ".xtc") >>
       [] p = "empty" -> << >>
       [] p = "news"  -> << BookEntry("N", ".epub", ".xtch"), NavEntry("More", "shelf"), BookEntry("A", ".epub", "") >>]

Paths == DOMAIN Catalog

\* the outcomes of HttpDownloader::fetchUrl followed by the parse
FetchResults(path) == {"fetch_failed", "parse_failed", "ok"}

\* the outcomes of HttpDownloader::downloadToFile
DownloadResults == {"OK", "FAILED_PARTIAL", "FAILED_NO_FILE"}

\* the files the downloads of this catalog write
Dests ==
  { [dir |-> "/", name |-> "A", ext |-> ".xtc"],
    [dir |-> "/News/", name |-> "N", ext |-> ".xtch"], [dir |-> "/News/", name |-> "A", ext |-> ".epub"] }

NoCall == [url |-> NoHref, dest |-> [dir |-> "", name |-> "", ext |-> ""]]

Buttons == {"Confirm", "Back", "Prev", "Next"}

VARIABLES
  activity,           \* which activity object exists: "home", "opds", "news", "settings"
  state,              \* BrowserState / SyncState
  entries,            \* std::vector<OpdsEntry>
  navigationHistory,  \* std::vector<std::string>
  currentPath,
  selectorIndex,
  errorMessage,
  statusMessage,
  updateRequired,
  subActivity,        \* TRUE while subActivity points to an activity
  subActivityType,    \* the class of that activity, "" while there is none
  selectedIndex,      \* CalibreSettingsActivity
  ipc,                \* where the input task is
  call,               \* arguments of the blocking call the input task is in
  wifi,               \* WiFi.status() == WL_CONNECTED with a valid IP
  serverUrl,          \* strlen(SETTINGS.opdsServerUrl) > 0
  files,              \* files on the card
  truncated,          \* the files on the card that a failed download left incomplete
  cache,              \* files that have a cache folder under /.crosspoint
  displayTaskHandle,  \* TRUE while the display task exists
  renderingMutex,     \* "null", "free", or the task that holds it
  dpc,                \* where the display task is
  fb,                 \* what the render() in progress has drawn into the frame buffer
  renderFault,        \* a read of entries[selectorIndex] out of range has faulted
  leftIndex,          \* history variable: the selector index at each navigateToEntry
  \* the reader's page cache (two slots)
  current,            \* slot: [index, page], index -1 while empty
  adjacent,           \* slot: [index, page], index -1 while empty
  requested,          \* the page index the reader is at
  lastMove,           \* "forward", "backward" or "jump"
  pending,            \* "update needed": the requested page has not been resolved yet
  served,             \* the last page request that was served: [index, page, sync]
  \* the browser extension's service worker and the host it posts to
  browser,            \* "chrome" or "firefox"
  swPc,               \* where the onMessage handler is
  popupMessage,            \* [action, bulkCapture] received from the popup
  doc,                \* the document of the active tab (Send Article)
  items,              \* extractListFromTab's items, each a URL
  broken,             \* the URLs whose capture fails
  stuck,              \* the URLs among them that a capture tab cannot be updated to
  limitedIndex,       \* how many items of limited the for loop has finished
  tab,                \* the capture tab's URL, 0 while there is none
  results,            \* bulkCapture's results
  attempts,           \* history variable: the URLs a capture tab was requested for
  snapshot,           \* host: [saved, items] of the last snapshot posted
  ingested,           \* host: the URLs whose article was ingested
  issueBuilds,        \* host: the number of issue builds requested
  article,            \* the content script's answer to captureArticle
  payload,            \* host: content_html of the article Send Article ingested
  response,           \* the response sent to the popup
  useMobileUA,        \* config.useMobileUA
  openTabs,           \* browser: the capture tabs that are open, by the item they were created for
  uaListeners,        \* browser: the tabs a User-Agent override listener is registered for
  \* firefox service worker: sendMessageWithRetry
  sendPc,             \* where sendMessageWithRetry is
  sendTab,            \* its tabId
  attempt,            \* its loop counter
  lastError,          \* its lastError: "null", "connection" or "other"
  sendResult,         \* what it returned or threw
  injectedTabs,       \* the set injectedTabs
  listening,          \* browser: the tabs whose content script is listening
  events,             \* history variable: the injections and sends of the call
  \* firefox service worker: appendLog and the stored log
  logs,               \* browser.storage.local: the array under LOG_KEY
  logPc,              \* per caller: where its appendLog is
  logLocal,           \* per caller: the array its appendLog has read
  logEntry,           \* per caller: the entry it appends
  appended,           \* history variable: the entries stored, in the order of their storing
  nextEntry,          \* the next entry, entries being numbered as they are made
  logCalls,           \* the appendLog calls so far
  overlapped,         \* history variable: two appendLog calls have been in flight together
  \* firefox service worker: openCaptureTab and waitForTabLoad
  loadPc,             \* where bulkCapture is with its capture tab
  loadItem,           \* the items whose tab was opened
  tabPage,            \* the page in the capture tab: "none" without a tab
  tabStatus,          \* the tab's status: "loading" or "complete"
  pendingUrl,         \* tabs.update gave the tab a url it has not started to load
  loadListener,       \* the tabs.onUpdated listener of waitForTabLoad is registered
  resolvedOn,         \* history variable: the page whose completion resolved waitForTabLoad
  targetCompleted     \* history variable: the target page completed before any timeout

inputVars ==
  << activity, state, entries, navigationHistory, currentPath, selectorIndex, errorMessage,
     statusMessage, subActivity, subActivityType, selectedIndex, ipc, call, wifi, files,
     truncated, cache >>

displayVars == << displayTaskHandle, renderingMutex, dpc, fb, renderFault >>

screenVars == << inputVars, updateRequired, serverUrl, displayVars, leftIndex >>

readerVars == << current, adjacent, requested, lastMove, pending, served >>

captureTabs == << openTabs, uaListeners >>

handlerVars == << browser, swPc, popupMessage, doc, items, broken, stuck, limitedIndex, tab, results,
                 attempts, snapshot, ingested, issueBuilds, article, payload, response,
                 useMobileUA, captureTabs >>

retryVars == << sendPc, sendTab, attempt, lastError, sendResult, injectedTabs, listening, events >>

logVars == << logs, logPc, logLocal, logEntry, appended, nextEntry, logCalls, overlapped >>

loadVars == << loadPc, loadItem, tabPage, tabStatus, pendingUrl, loadListener, resolvedOn, targetCompleted >>

workerVars == << retryVars, logVars, loadVars >>

extensionVars == << handlerVars, workerVars >>

vars == << screenVars, readerVars, extensionVars >>

(***************************************************************************)
(* The fields the input task works on, as one value.                       *)
(***************************************************************************)
This ==
  [activity |-> activity, state |-> state, entries |-> entries,
   navigationHistory |-> navigationHistory, currentPath |-> currentPath,
   selectorIndex |-> selectorIndex, errorMessage |-> errorMessage,
   statusMessage |-> statusMessage, updateRequired |-> updateRequired,
   subActivity |-> subActivity, subActivityType |-> subActivityType,
   selectedIndex |-> selectedIndex, ipc |-> ipc, call |-> call, wifi |-> wifi,
   files |-> files, truncated |-> truncated, cache |-> cache]

\* errorMessage is assigned on every entry to ERROR and read by render() in ERROR
\* alone; the value it keeps in the other states is not recorded
Store(t) ==
  /\ activity' = t.activity
  /\ state' = t.state
  /\ entries' = t.entries
  /\ navigationHistory' = t.navigationHistory
  /\ currentPath' = t.currentPath
  /\ selectorIndex' = t.selectorIndex
  /\ errorMessage' = IF t.state = "ERROR" THEN t.errorMessage ELSE ""
  /\ statusMessage' = t.statusMessage
  /\ updateRequired' = t.updateRequired
  /\ subActivity' = t.subActivity
  /\ subActivityType' = t.subActivityType
  /\ selectedIndex' = t.selectedIndex
  /\ ipc' = t.ipc
  /\ call' = t.call
  /\ wifi' = t.wifi
  /\ files' = t.files
  /\ truncated' = t.truncated
  /\ cache' = t.cache

Last(s) == s[Len(s)]

Front(s) == SubSeq(s, 1, Len(s) - 1)

\* (size_t) n % size for an int n: a negative n is n + 2^32 as a size_t
sizeTMod(n, size) ==
  IF n >= 0 THEN n % size
  ELSE ((n % size) + (((SizeHalf % size) * (SizeHalf % size)) % size)) % size

\* StringUtils::checkFileExtension
checkFileExtension(href, ext) == href.ext = ext

(***************************************************************************)
(* OpdsBookBrowserActivity, input task                                     *)
(***************************************************************************)
\* onGoHome(): the callback replaces this activity; onExit() runs next
onGoHome(t) == [t EXCEPT !.ipc = "onExit"]

\* fetchFeed that hands the request over and returns to loop() at once
fetchFeed_notWaiting(t, path) ==
  IF ~serverUrl
    THEN [t EXCEPT !.state = "ERROR", !.errorMessage = "No server URL configured",
                   !.updateRequired = TRUE]
    ELSE [t EXCEPT !.call = [NoCall EXCEPT !.url = [base |-> path, ext |-> ""]]]

\* fetchFeed up to the call of HttpDownloader::fetchUrl
fetchFeed(t, path) ==
  IF ~serverUrl
    THEN [t EXCEPT !.state = "ERROR", !.errorMessage = "No server URL configured",
                   !.updateRequired = TRUE]
    ELSE [t EXCEPT !.ipc = "fetchUrl", !.call = [NoCall EXCEPT !.url = [base |-> path, ext |-> ""]]]

\* fetchFeed that selects the last entry of the new listing
fetchFeedReturn_selectsLast(t, result) ==
  LET r == [t EXCEPT !.ipc = "loop", !.call = NoCall] IN
  IF result = "fetch_failed"
    THEN [r EXCEPT !.state = "ERROR", !.errorMessage = "Failed to fetch feed", !.updateRequired = TRUE]
  ELSE IF result = "parse_failed"
    THEN [r EXCEPT !.state = "ERROR", !.errorMessage = "Failed to parse feed", !.updateRequired = TRUE]
  ELSE LET parsed == Catalog[t.call.url.base] IN
       IF parsed = << >>
         THEN [r EXCEPT !.entries = parsed, !.selectorIndex = 0, !.state = "ERROR",
                        !.errorMessage = "No entries found", !.updateRequired = TRUE]
         ELSE [r EXCEPT !.entries = parsed, !.selectorIndex = Len(parsed) - 1,
                        !.state = "BROWSING", !.updateRequired = TRUE]

\* fetchFeed that shows a feed without entries as a listing
fetchFeedReturn_browsesEmpty(t, result) ==
  LET r == [t EXCEPT !.ipc = "loop", !.call = NoCall] IN
  IF result = "fetch_failed"
    THEN [r EXCEPT !.state = "ERROR", !.errorMessage = "Failed to fetch feed", !.updateRequired = TRUE]
  ELSE IF result = "parse_failed"
    THEN [r EXCEPT !.state = "ERROR", !.errorMessage = "Failed to parse feed", !.updateRequired = TRUE]
  ELSE [r EXCEPT !.entries = Catalog[t.call.url.base], !.selectorIndex = 0, !.state = "BROWSING",
                 !.updateRequired = TRUE]

\* fetchFeed from the return of HttpDownloader::fetchUrl
fetchFeedReturn(t, result) ==
  LET r == [t EXCEPT !.ipc = "loop", !.call = NoCall] IN
  IF result = "fetch_failed"
    THEN [r EXCEPT !.state = "ERROR", !.errorMessage = "Failed to fetch feed", !.updateRequired = TRUE]
  ELSE IF result = "parse_failed"
    THEN [r EXCEPT !.state = "ERROR", !.errorMessage = "Failed to parse feed", !.updateRequired = TRUE]
  ELSE LET parsed == Catalog[t.call.url.base] IN
       IF parsed = << >>
         THEN [r EXCEPT !.entries = parsed, !.selectorIndex = 0, !.state = "ERROR",
                        !.errorMessage = "No entries found", !.updateRequired = TRUE]
         ELSE [r EXCEPT !.entries = parsed, !.selectorIndex = 0, !.state = "BROWSING",
                        !.updateRequired = TRUE]

navigateToEntry(t, entry) ==
  fetchFeed([t EXCEPT !.navigationHistory = Append(t.navigationHistory, t.currentPath),
                      !.currentPath = entry.href.base,
                      !.state = "LOADING", !.statusMessage = "Loading...",
                      !.entries = << >>, !.selectorIndex = 0, !.updateRequired = TRUE],
            entry.href.base)

\* navigateBack that reads the top of the history and leaves it there
navigateBack_keepsTop(t) ==
  IF t.navigationHistory = << >>
    THEN onGoHome(t)
    ELSE fetchFeed([t EXCEPT !.currentPath = Last(t.navigationHistory),
                             !.state = "LOADING", !.statusMessage = "Loading...",
                             !.entries = << >>, !.selectorIndex = 0, !.updateRequired = TRUE],
                   Last(t.navigationHistory))

navigateBack(t) ==
  IF t.navigationHistory = << >>
    THEN onGoHome(t)
    ELSE fetchFeed([t EXCEPT !.currentPath = Last(t.navigationHistory),
                             !.navigationHistory = Front(t.navigationHistory),
                             !.state = "LOADING", !.statusMessage = "Loading...",
                             !.entries = << >>, !.selectorIndex = 0, !.updateRequired = TRUE],
                   Last(t.navigationHistory))

\* the extension downloadBook and downloadEntry give the file
extensionOf(downloadHref) ==
  IF checkFileExtension(downloadHref, ".xtch") THEN ".xtch"
  ELSE IF checkFileExtension(downloadHref, ".xtc") THEN ".xtc"
  ELSE ".epub"

\* downloadBook that always fetches the default href
downloadBook_defaultHref(t, book) ==
  LET downloadHref == book.href
      filename == [dir |-> "/", name |-> book.title, ext |-> extensionOf(downloadHref)]
  IN [t EXCEPT !.state = "DOWNLOADING", !.statusMessage = book.title,
               !.updateRequired = TRUE,
               !.ipc = "downloadToFile", !.call = [url |-> downloadHref, dest |-> filename]]

\* downloadBook up to the call of HttpDownloader::downloadToFile
downloadBook(t, book) ==
  LET downloadHref == IF book.hrefXtc # NoHref THEN book.hrefXtc ELSE book.href
      filename == [dir |-> "/", name |-> book.title, ext |-> extensionOf(downloadHref)]
  IN [t EXCEPT !.state = "DOWNLOADING", !.statusMessage = book.title,
               !.updateRequired = TRUE,
               !.ipc = "downloadToFile", !.call = [url |-> downloadHref, dest |-> filename]]

\* a clearCache that removes nothing
clearCache_keeps(c, filename) == c

\* Xtc::clearCache / Epub::clearCache of the cache folder of one file
clearCache(c, filename) == c \ {filename}

\* what HttpDownloader::downloadToFile leaves on the card: the file on success;
\* on failure either a truncated file or none
written(fs, dest, result) ==
  IF result = "FAILED_NO_FILE" THEN fs \ {dest} ELSE fs \cup {dest}

\* the incomplete files after HttpDownloader::downloadToFile
cutShort(tr, dest, result) ==
  IF result = "FAILED_PARTIAL" THEN tr \cup {dest} ELSE tr \ {dest}

\* downloadBook that starts over from the root when the download fails
downloadBookReturn_startsOver(t, result) ==
  LET r == [t EXCEPT !.ipc = "loop", !.call = NoCall, !.files = written(t.files, t.call.dest, result),
                     !.truncated = cutShort(t.truncated, t.call.dest, result)] IN
  IF result = "OK"
    THEN [r EXCEPT !.cache = clearCache(t.cache, t.call.dest), !.state = "BROWSING",
                   !.updateRequired = TRUE]
    ELSE [r EXCEPT !.state = "ERROR", !.errorMessage = "Download failed", !.updateRequired = TRUE,
                   !.navigationHistory = << >>, !.currentPath = OPDS_ROOT_PATH]

\* downloadBook that returns to the first entry of the listing after a download
downloadBookReturn_resetsSelection(t, result) ==
  LET r == [t EXCEPT !.ipc = "loop", !.call = NoCall, !.files = written(t.files, t.call.dest, result),
                     !.truncated = cutShort(t.truncated, t.call.dest, result)] IN
  IF result = "OK"
    THEN [r EXCEPT !.cache = clearCache(t.cache, t.call.dest), !.state = "BROWSING",
                   !.selectorIndex = 0, !.updateRequired = TRUE]
    ELSE [r EXCEPT !.state = "ERROR", !.errorMessage = "Download failed", !.updateRequired = TRUE]

\* downloadBook from the return of HttpDownloader::downloadToFile
downloadBookReturn(t, result) ==
  LET r == [t EXCEPT !.ipc = "loop", !.call = NoCall, !.files = written(t.files, t.call.dest, result),
                     !.truncated = cutShort(t.truncated, t.call.dest, result)] IN
  IF result = "OK"
    THEN [r EXCEPT !.cache = clearCache(t.cache, t.call.dest), !.state = "BROWSING",
                   !.updateRequired = TRUE]
    ELSE [r EXCEPT !.state = "ERROR", !.errorMessage = "Download failed", !.updateRequired = TRUE]

launchWifiSelection(t) ==
  [t EXCEPT !.state = "WIFI_SELECTION", !.updateRequired = TRUE, !.subActivity = TRUE,
            !.subActivityType = "WifiSelectionActivity"]

checkAndConnectWifi(t) ==
  IF t.wifi
    THEN fetchFeed([t EXCEPT !.state = "LOADING", !.statusMessage = "Loading...",
                             !.updateRequired = TRUE], t.currentPath)
    ELSE launchWifiSelection(t)

onWifiSelectionComplete(t, connected) ==
  LET r == [t EXCEPT !.subActivity = FALSE, !.subActivityType = ""] IN
  IF connected
    THEN fetchFeed([r EXCEPT !.wifi = TRUE, !.state = "LOADING", !.statusMessage = "Loading...",
                             !.updateRequired = TRUE], r.currentPath)
    ELSE [r EXCEPT !.wifi = FALSE, !.state = "ERROR", !.errorMessage = "WiFi connection failed",
                   !.updateRequired = TRUE]

\* the four selector moves of loop(), in size_t arithmetic
\* a previous-entry move that subtracts without adding the size first
movePrev_noWrap(sel, size, skipPage) ==
  IF skipPage
    THEN sizeTMod((sel \div PAGE_ITEMS - 1) * PAGE_ITEMS + size, size)
    ELSE sizeTMod(sel - 1, size)

movePrev(sel, size, skipPage) ==
  IF skipPage
    THEN sizeTMod((sel \div PAGE_ITEMS - 1) * PAGE_ITEMS + size, size)
    ELSE sizeTMod(sel + size - 1, size)

moveNext(sel, size, skipPage) ==
  IF skipPage
    THEN sizeTMod((sel \div PAGE_ITEMS + 1) * PAGE_ITEMS, size)
    ELSE sizeTMod(sel + 1, size)

\* loop() in ERROR with a retry that does not look at the WiFi status
loopError_noCheck(t, b) ==
  IF b = "Confirm" THEN
    fetchFeed([t EXCEPT !.state = "LOADING", !.statusMessage = "Loading...",
                        !.updateRequired = TRUE], t.currentPath)
  ELSE IF b = "Back" THEN navigateBack(t)
  ELSE t

\* loop() in ERROR whose Back shows the listing again
loopError_backToListing(t, b) ==
  IF b = "Confirm" THEN
    IF t.wifi
      THEN fetchFeed([t EXCEPT !.state = "LOADING", !.statusMessage = "Loading...",
                               !.updateRequired = TRUE], t.currentPath)
      ELSE launchWifiSelection(t)
  ELSE IF b = "Back" THEN [t EXCEPT !.state = "BROWSING", !.updateRequired = TRUE]
  ELSE t

\* loop() in ERROR: Confirm retries, Back goes back or home
loopError(t, b) ==
  IF b = "Confirm" THEN
    IF t.wifi
      THEN fetchFeed([t EXCEPT !.state = "LOADING", !.statusMessage = "Loading...",
                               !.updateRequired = TRUE], t.currentPath)
      ELSE launchWifiSelection(t)
  ELSE IF b = "Back" THEN navigateBack(t)
  ELSE t

\* loop() in BROWSING
loopBrowsing(t, b, skipPage) ==
  IF b = "Confirm" THEN
    IF t.entries # << >> THEN
      LET entry == t.entries[t.selectorIndex + 1] IN
      IF entry.type = "BOOK" THEN downloadBook(t, entry) ELSE navigateToEntry(t, entry)
    ELSE t
  ELSE IF b = "Back" THEN navigateBack(t)
  ELSE IF b = "Prev" /\ t.entries # << >> THEN
    [t EXCEPT !.selectorIndex = movePrev(t.selectorIndex, Len(t.entries), skipPage),
              !.updateRequired = TRUE]
  ELSE IF b = "Next" /\ t.entries # << >> THEN
    [t EXCEPT !.selectorIndex = moveNext(t.selectorIndex, Len(t.entries), skipPage),
              !.updateRequired = TRUE]
  ELSE t

\* loop() with the button whose release it observes
loop(t, b, skipPage) ==
  IF t.state = "WIFI_SELECTION" THEN t   \* ActivityWithSubactivity::loop()
  ELSE IF t.state = "ERROR" THEN loopError(t, b)
  ELSE IF t.state = "CHECK_WIFI" THEN
    IF b = "Back" THEN onGoHome(t) ELSE t
  ELSE IF t.state = "LOADING" THEN
    IF b = "Back" THEN navigateBack(t) ELSE t
  ELSE IF t.state = "DOWNLOADING" THEN t
  ELSE IF t.state = "BROWSING" THEN loopBrowsing(t, b, skipPage)
  ELSE t

\* onEnter(), the display task is created inside it
onEnter(t) ==
  checkAndConnectWifi([t EXCEPT !.activity = "opds", !.ipc = "loop", !.state = "CHECK_WIFI",
                                !.entries = << >>, !.navigationHistory = << >>,
                                !.currentPath = OPDS_ROOT_PATH, !.selectorIndex = 0,
                                !.errorMessage = "", !.statusMessage = "Checking WiFi...",
                                !.updateRequired = TRUE])

\* onExit() from the point where it has taken renderingMutex
onExit(t) ==
  [t EXCEPT !.activity = "home", !.ipc = "exited", !.wifi = FALSE,
            !.entries = << >>, !.navigationHistory = << >>]

(***************************************************************************)
(* NewsSyncActivity, input task                                            *)
(***************************************************************************)
setError(t, message) ==
  [t EXCEPT !.state = "ERROR", !.errorMessage = message, !.updateRequired = TRUE]

\* OpdsParser::getBooks
RECURSIVE getBooks(_)
getBooks(es) ==
  IF es = << >> THEN << >>
  ELSE IF es[1].type = "BOOK" THEN << es[1] >> \o getBooks(Tail(es))
  ELSE getBooks(Tail(es))

\* startSync up to the call of HttpDownloader::fetchUrl
startSync(t) ==
  IF ~serverUrl THEN setError(t, "Calibre Web URL not set")
  ELSE IF NEWS_FEED_PATH = "" THEN setError(t, "News Feed Path not set")
  ELSE [t EXCEPT !.state = "FETCHING_FEED", !.statusMessage = "Fetching feed...",
                 !.updateRequired = TRUE, !.ipc = "fetchUrl",
                 !.call = [NoCall EXCEPT !.url = [base |-> NEWS_FEED_PATH, ext |-> ""]]]

\* startSync from the return of HttpDownloader::fetchUrl
startSyncReturn(t, result) ==
  LET r == [t EXCEPT !.ipc = "loop", !.call = NoCall] IN
  IF result = "fetch_failed" THEN setError(r, "Failed to fetch feed")
  ELSE IF result = "parse_failed" THEN setError(r, "Failed to parse feed")
  ELSE LET books == getBooks(Catalog[t.call.url.base]) IN
       IF books = << >> THEN setError(r, "No books in feed")
       ELSE [r EXCEPT !.entries = books, !.selectorIndex = 0, !.state = "SELECT_SOURCE",
                      !.statusMessage = "Select source", !.updateRequired = TRUE]

\* downloadEntry that reports a file already on the card as an error
downloadEntry_existsIsError(t, entry) ==
  LET downloadHref == IF entry.hrefXtc # NoHref THEN entry.hrefXtc ELSE entry.href
      safeName == IF entry.title = "" THEN "news" ELSE entry.title
      destPath == [dir |-> "/News/", name |-> safeName, ext |-> extensionOf(downloadHref)]
  IN IF downloadHref = NoHref THEN setError(t, "No download link")
     ELSE IF destPath \in t.files THEN setError(t, "Already downloaded")
     ELSE [t EXCEPT !.state = "DOWNLOADING",
                    !.statusMessage = IF entry.title = "" THEN "Downloading..." ELSE entry.title,
                    !.updateRequired = TRUE,
                    !.ipc = "downloadToFile", !.call = [url |-> downloadHref, dest |-> destPath]]

\* downloadEntry up to the call of HttpDownloader::downloadToFile
downloadEntry(t, entry) ==
  LET downloadHref == IF entry.hrefXtc # NoHref THEN entry.hrefXtc ELSE entry.href
      safeName == IF entry.title = "" THEN "news" ELSE entry.title
      destPath == [dir |-> "/News/", name |-> safeName, ext |-> extensionOf(downloadHref)]
  IN IF downloadHref = NoHref THEN setError(t, "No download link")
     ELSE IF destPath \in t.files
       THEN [t EXCEPT !.state = "COMPLETE", !.statusMessage = "Already downloaded",
                      !.updateRequired = TRUE]
       ELSE [t EXCEPT !.state = "DOWNLOADING",
                      !.statusMessage = IF entry.title = "" THEN "Downloading..." ELSE entry.title,
                      !.updateRequired = TRUE,
                      !.ipc = "downloadToFile", !.call = [url |-> downloadHref, dest |-> destPath]]

\* downloadEntry from the return of HttpDownloader::downloadToFile
downloadEntryReturn(t, result) ==
  LET r == [t EXCEPT !.ipc = "loop", !.call = NoCall, !.files = written(t.files, t.call.dest, result),
                     !.truncated = cutShort(t.truncated, t.call.dest, result)] IN
  IF result = "OK"
    THEN [r EXCEPT !.cache = clearCache(t.cache, t.call.dest), !.state = "COMPLETE",
                   !.statusMessage = "Download complete", !.updateRequired = TRUE]
    ELSE setError(r, "Download failed")

newsCheckAndConnectWifi(t) ==
  IF t.wifi THEN startSync(t)
  ELSE [t EXCEPT !.state = "WIFI_SELECTION", !.updateRequired = TRUE, !.subActivity = TRUE,
                 !.subActivityType = "WifiSelectionActivity"]

\* onWifiSelectionComplete that leaves the screen when no connection was made
newsOnWifiSelectionComplete_exits(t, connected) ==
  LET r == [t EXCEPT !.subActivity = FALSE, !.subActivityType = "", !.wifi = connected] IN
  IF connected THEN startSync(r) ELSE onGoHome(r)

newsOnWifiSelectionComplete(t, connected) ==
  LET r == [t EXCEPT !.subActivity = FALSE, !.subActivityType = "", !.wifi = connected] IN
  IF connected THEN startSync(r) ELSE setError(r, "WiFi connection failed")

\* loop() in ERROR and in COMPLETE with a Confirm that downloads the selected entry
newsLoopDone_downloads(t, b) ==
  IF b = "Back" THEN onGoHome(t)
  ELSE IF b = "Confirm" THEN
    IF t.entries # << >>
      THEN downloadEntry(t, t.entries[t.selectorIndex + 1])
      ELSE onGoHome(t)
  ELSE t

\* loop() in ERROR and in COMPLETE
newsLoopDone(t, b) ==
  IF b = "Back" THEN onGoHome(t)
  ELSE IF b = "Confirm" THEN
    IF t.entries # << >>
      THEN [t EXCEPT !.state = "SELECT_SOURCE", !.updateRequired = TRUE]
      ELSE onGoHome(t)
  ELSE t

\* loop() in SELECT_SOURCE
newsLoopSelect(t, b) ==
  IF b = "Back" THEN onGoHome(t)
  ELSE IF b = "Confirm" THEN
    IF t.entries # << >> THEN downloadEntry(t, t.entries[t.selectorIndex + 1]) ELSE t
  ELSE IF b = "Prev" /\ t.entries # << >> THEN
    [t EXCEPT !.selectorIndex = (t.selectorIndex + Len(t.entries) - 1) % Len(t.entries),
              !.updateRequired = TRUE]
  ELSE IF b = "Next" /\ t.entries # << >> THEN
    [t EXCEPT !.selectorIndex = (t.selectorIndex + 1) % Len(t.entries),
              !.updateRequired = TRUE]
  ELSE t

\* loop() with the button whose press it observes
newsLoop(t, b) ==
  IF t.subActivity THEN t   \* subActivity->loop()
  ELSE IF t.state = "CHECK_WIFI" THEN
    IF b = "Back" THEN onGoHome(t) ELSE t
  ELSE IF t.state = "ERROR" \/ t.state = "COMPLETE" THEN newsLoopDone(t, b)
  ELSE IF t.state = "SELECT_SOURCE" THEN newsLoopSelect(t, b)
  ELSE t

newsOnEnter(t) ==
  newsCheckAndConnectWifi([t EXCEPT !.activity = "news", !.ipc = "loop", !.state = "CHECK_WIFI",
                                    !.statusMessage = "Checking WiFi...", !.errorMessage = "",
                                    !.entries = << >>, !.selectorIndex = 0,
                                    !.updateRequired = TRUE])

\* onExit() from the point where it has taken renderingMutex
newsOnExit(t) == [t EXCEPT !.activity = "home", !.ipc = "exited", !.wifi = FALSE]

(***************************************************************************)
(* CalibreSettingsActivity, input task                                     *)
(***************************************************************************)
MENU_ITEMS == 3

menuNames == << "Calibre Web URL", "News Feed Path", "Connect as Wireless Device" >>

\* enterNewActivity(new ...)
enterNewActivity(t, type) == [t EXCEPT !.subActivity = TRUE, !.subActivityType = type]

\* exitActivity()
exitActivity(t) == [t EXCEPT !.subActivity = FALSE, !.subActivityType = ""]

\* loop() with a handleSelection that launches without taking renderingMutex
settingsLoop_launches(t, b) ==
  IF t.subActivity THEN t
  ELSE IF b = "Back" THEN onGoHome(t)
  ELSE IF b = "Confirm" THEN
    enterNewActivity(t, IF t.selectedIndex < 2 THEN "KeyboardEntryActivity"
                        ELSE IF t.wifi THEN "CalibreWirelessActivity"
                        ELSE "WifiSelectionActivity")
  ELSE IF b = "Prev" THEN
    [t EXCEPT !.selectedIndex = (t.selectedIndex + MENU_ITEMS - 1) % MENU_ITEMS,
              !.updateRequired = TRUE]
  ELSE [t EXCEPT !.selectedIndex = (t.selectedIndex + 1) % MENU_ITEMS,
                 !.updateRequired = TRUE]

\* loop(); Confirm leads into handleSelection, which starts with
\* xSemaphoreTake(renderingMutex, portMAX_DELAY)
settingsLoop(t, b) ==
  IF t.subActivity THEN t   \* subActivity->loop()
  ELSE IF b = "Back" THEN onGoHome(t)
  ELSE IF b = "Confirm" THEN [t EXCEPT !.ipc = "xSemaphoreTake"]
  ELSE IF b = "Prev" THEN
    [t EXCEPT !.selectedIndex = (t.selectedIndex + MENU_ITEMS - 1) % MENU_ITEMS,
              !.updateRequired = TRUE]
  ELSE [t EXCEPT !.selectedIndex = (t.selectedIndex + 1) % MENU_ITEMS,
                 !.updateRequired = TRUE]

\* handleSelection() between xSemaphoreTake and xSemaphoreGive
handleSelection(t) ==
  LET r == exitActivity(t) IN
  IF t.selectedIndex = 0 THEN enterNewActivity(r, "KeyboardEntryActivity")
  ELSE IF t.selectedIndex = 1 THEN enterNewActivity(r, "KeyboardEntryActivity")
  ELSE IF t.selectedIndex = 2 THEN
    IF ~t.wifi THEN enterNewActivity(r, "WifiSelectionActivity")
    ELSE enterNewActivity(r, "CalibreWirelessActivity")
  ELSE r

\* the callbacks of the KeyboardEntryActivity (entered text, cancel) and of the
\* CalibreWirelessActivity
settingsSubActivityDone(t) == [exitActivity(t) EXCEPT !.updateRequired = TRUE]

\* the callback of the WifiSelectionActivity
settingsOnWifiSelectionComplete(t, connected) ==
  LET r == [exitActivity(t) EXCEPT !.wifi = connected] IN
  IF connected THEN enterNewActivity(r, "CalibreWirelessActivity")
  ELSE [r EXCEPT !.updateRequired = TRUE]

settingsOnEnter(t) ==
  [t EXCEPT !.activity = "settings", !.ipc = "loop", !.selectedIndex = 0,
            !.updateRequired = TRUE]

\* onExit() from the point where it has taken renderingMutex
settingsOnExit(t) ==
  [exitActivity(t) EXCEPT !.activity = "home", !.ipc = "exited"]

(***************************************************************************)
(* Steps of the input task                                                 *)
(***************************************************************************)
Blank == [body |-> "", hints |-> ""]

\* nothing is modelled after a read outside the entry list has faulted
Running == ~renderFault

\* xTaskCreate in onEnter
taskCreated ==
  /\ displayTaskHandle' = TRUE
  /\ renderingMutex' = "free"
  /\ dpc' = "poll"
  /\ fb' = Blank
  /\ UNCHANGED renderFault

\* HomeActivity: onOpdsBrowserOpen
EnterOpds ==
  /\ activity = "home"
  /\ ipc = "home"
  /\ Store(onEnter(This))
  /\ taskCreated
  /\ leftIndex' = << >>
  /\ UNCHANGED serverUrl
  /\ UNCHANGED << readerVars, extensionVars >>

\* HomeActivity: onNewsSyncOpen
EnterNews ==
  /\ activity = "home"
  /\ ipc = "home"
  /\ Store(newsOnEnter(This))
  /\ taskCreated
  /\ leftIndex' = << >>
  /\ UNCHANGED serverUrl
  /\ UNCHANGED << readerVars, extensionVars >>

\* the selector index saved for each location of the history, and on top of them,
\* after a Back, the one the listing now current was left with
leftIndexAfter(t, u) ==
  IF Len(u.navigationHistory) > Len(t.navigationHistory)
    THEN Append(SubSeq(leftIndex, 1, Len(t.navigationHistory)), t.selectorIndex)
  ELSE IF Len(u.navigationHistory) < Len(t.navigationHistory)
    THEN SubSeq(leftIndex, 1, Len(t.navigationHistory))
  ELSE IF u.selectorIndex # t.selectorIndex /\ u.state = "BROWSING"
    THEN SubSeq(leftIndex, 1, Len(t.navigationHistory))
  ELSE leftIndex

\* one pass of OpdsBookBrowserActivity::loop()
OpdsLoop(b, skipPage) ==
  /\ Running
  /\ activity = "opds"
  /\ ipc = "loop"
  /\ Len(loop(This, b, skipPage).navigationHistory) <= MaxDepth
  /\ Store(loop(This, b, skipPage))
  /\ leftIndex' = leftIndexAfter(This, loop(This, b, skipPage))
  /\ UNCHANGED << serverUrl, displayVars >>
  /\ UNCHANGED << readerVars, extensionVars >>

\* HttpDownloader::fetchUrl returns into fetchFeed
OpdsFetchReturn(result) ==
  /\ Running
  /\ activity = "opds"
  /\ call.url # NoHref /\ call.dest = NoCall.dest
  /\ Store(fetchFeedReturn(This, result))
  /\ UNCHANGED << serverUrl, displayVars, leftIndex >>
  /\ UNCHANGED << readerVars, extensionVars >>

\* the progress callback downloadToFile is given (the byte counts it stores
\* are read by the progress bar alone and are left out)
Progress ==
  /\ Running
  /\ call.dest # NoCall.dest
  /\ updateRequired' = TRUE
  /\ UNCHANGED << inputVars, serverUrl, displayVars, leftIndex >>
  /\ UNCHANGED << readerVars, extensionVars >>

\* HttpDownloader::downloadToFile returns into downloadBook
OpdsDownloadReturn(result) ==
  /\ Running
  /\ activity = "opds"
  /\ call.dest # NoCall.dest
  /\ Store(downloadBookReturn(This, result))
  /\ UNCHANGED << serverUrl, displayVars, leftIndex >>
  /\ UNCHANGED << readerVars, extensionVars >>

\* the WifiSelectionActivity calls its completion callback
OpdsWifiSelectionComplete(connected) ==
  /\ Running
  /\ activity = "opds"
  /\ subActivity
  /\ ipc = "loop"
  /\ Store(onWifiSelectionComplete(This, connected))
  /\ UNCHANGED << serverUrl, displayVars, leftIndex >>
  /\ UNCHANGED << readerVars, extensionVars >>

\* one pass of NewsSyncActivity::loop()
NewsLoop(b) ==
  /\ Running
  /\ activity = "news"
  /\ ipc = "loop"
  /\ Store(newsLoop(This, b))
  /\ UNCHANGED << serverUrl, displayVars, leftIndex >>
  /\ UNCHANGED << readerVars, extensionVars >>

NewsFetchReturn(result) ==
  /\ Running
  /\ activity = "news"
  /\ call.url # NoHref /\ call.dest = NoCall.dest
  /\ Store(startSyncReturn(This, result))
  /\ UNCHANGED << serverUrl, displayVars, leftIndex >>
  /\ UNCHANGED << readerVars, extensionVars >>

NewsDownloadReturn(result) ==
  /\ Running
  /\ activity = "news"
  /\ call.dest # NoCall.dest
  /\ Store(downloadEntryReturn(This, result))
  /\ UNCHANGED << serverUrl, displayVars, leftIndex >>
  /\ UNCHANGED << readerVars, extensionVars >>

NewsWifiSelectionComplete(connected) ==
  /\ Running
  /\ activity = "news"
  /\ subActivity
  /\ ipc = "loop"
  /\ Store(newsOnWifiSelectionComplete(This, connected))
  /\ UNCHANGED << serverUrl, displayVars, leftIndex >>
  /\ UNCHANGED << readerVars, extensionVars >>

\* SettingsActivity opens the Calibre settings
EnterSettings ==
  /\ activity = "home"
  /\ ipc = "home"
  /\ Store(settingsOnEnter(This))
  /\ taskCreated
  /\ UNCHANGED << serverUrl, leftIndex >>
  /\ UNCHANGED << readerVars, extensionVars >>

\* one pass of CalibreSettingsActivity::loop(), up to the xSemaphoreTake of
\* handleSelection when it observes Confirm
SettingsLoop(b) ==
  /\ Running
  /\ activity = "settings"
  /\ ipc = "loop"
  /\ ~subActivity
  /\ Store(settingsLoop(This, b))
  /\ UNCHANGED << serverUrl, displayVars, leftIndex >>
  /\ UNCHANGED << readerVars, extensionVars >>

\* handleSelection: xSemaphoreTake(renderingMutex, portMAX_DELAY) returns
SettingsTake ==
  /\ Running
  /\ activity = "settings"
  /\ ipc = "xSemaphoreTake"
  /\ renderingMutex = "free"
  /\ renderingMutex' = "input"
  /\ Store([This EXCEPT !.ipc = "handleSelection"])
  /\ UNCHANGED << serverUrl, displayTaskHandle, dpc, fb, renderFault, leftIndex >>
  /\ UNCHANGED << readerVars, extensionVars >>

\* handleSelection: the launch of the sub-activity, then xSemaphoreGive
SettingsLaunch ==
  /\ Running
  /\ activity = "settings"
  /\ ipc = "handleSelection"
  /\ Store([handleSelection(This) EXCEPT !.ipc = "loop"])
  /\ renderingMutex' = "free"
  /\ UNCHANGED << serverUrl, displayTaskHandle, dpc, fb, renderFault, leftIndex >>
  /\ UNCHANGED << readerVars, extensionVars >>

\* the KeyboardEntryActivity calls onComplete with the text entered: the text is
\* stored in SETTINGS.opdsServerUrl (item 0; empty or not) or in
\* SETTINGS.opdsNewsPath (item 1)
SettingsKeyboardComplete(empty) ==
  /\ Running
  /\ activity = "settings"
  /\ ipc = "loop"
  /\ subActivityType = "KeyboardEntryActivity"
  /\ Store(settingsSubActivityDone(This))
  /\ serverUrl' = IF selectedIndex = 0 THEN ~empty ELSE serverUrl
  /\ UNCHANGED << displayVars, leftIndex >>
  /\ UNCHANGED << readerVars, extensionVars >>

\* the KeyboardEntryActivity calls onCancel, the CalibreWirelessActivity its
\* completion callback
SettingsSubActivityDone ==
  /\ Running
  /\ activity = "settings"
  /\ ipc = "loop"
  /\ subActivityType \in {"KeyboardEntryActivity", "CalibreWirelessActivity"}
  /\ Store(settingsSubActivityDone(This))
  /\ UNCHANGED << serverUrl, displayVars, leftIndex >>
  /\ UNCHANGED << readerVars, extensionVars >>

SettingsWifiSelectionComplete(connected) ==
  /\ Running
  /\ activity = "settings"
  /\ ipc = "loop"
  /\ subActivityType = "WifiSelectionActivity"
  /\ Store(settingsOnWifiSelectionComplete(This, connected))
  /\ UNCHANGED << serverUrl, displayVars, leftIndex >>
  /\ UNCHANGED << readerVars, extensionVars >>

\* onExit(): xSemaphoreTake(renderingMutex, portMAX_DELAY), then the teardown
Exit ==
  /\ Running
  /\ ipc = "onExit"
  /\ renderingMutex = "free"
  /\ Store(IF activity = "opds" THEN onExit(This)
           ELSE IF activity = "news" THEN newsOnExit(This)
           ELSE settingsOnExit(This))
  /\ displayTaskHandle' = FALSE
  /\ renderingMutex' = "null"
  /\ dpc' = "deleted"
  /\ UNCHANGED << serverUrl, fb, renderFault, leftIndex >>
  /\ UNCHANGED << readerVars, extensionVars >>

\* the access point goes away
WifiLost ==
  /\ Running
  /\ wifi
  /\ activity # "home"
  /\ wifi' = FALSE
  /\ UNCHANGED << activity, state, entries, navigationHistory, currentPath, selectorIndex,
                  errorMessage, statusMessage, updateRequired,
                  subActivity, subActivityType, selectedIndex, ipc, call, files, truncated, cache,
                  serverUrl, displayVars, leftIndex >>
  /\ UNCHANGED << readerVars, extensionVars >>

(***************************************************************************)
(* Steps of the display task: displayTaskLoop() and render()               *)
(***************************************************************************)
RenderPcs == {"render", "r2", "r3", "r4", "r5", "r5b", "r6", "r7", "n2"}

DisplayStep(from, to) ==
  /\ Running
  /\ displayTaskHandle
  /\ dpc = from
  /\ dpc' = to
  /\ UNCHANGED << inputVars, serverUrl, displayTaskHandle, leftIndex >>
  /\ UNCHANGED << readerVars, extensionVars >>

\* if (updateRequired), in CalibreSettingsActivity if (updateRequired && !subActivity)
Poll ==
  /\ updateRequired
  /\ activity = "settings" => ~subActivity
  /\ DisplayStep("poll", "clear")
  /\ UNCHANGED << updateRequired, renderingMutex, fb, renderFault >>

\* updateRequired = false
Clear ==
  /\ DisplayStep("clear", "take")
  /\ updateRequired' = FALSE
  /\ UNCHANGED << renderingMutex, fb, renderFault >>

\* xSemaphoreTake(renderingMutex, portMAX_DELAY)
Take ==
  /\ renderingMutex = "free"
  /\ DisplayStep("take", "render")
  /\ renderingMutex' = "display"
  /\ UNCHANGED << updateRequired, fb, renderFault >>

\* xSemaphoreGive(renderingMutex)
Give ==
  /\ DisplayStep("give", "poll")
  /\ renderingMutex' = "free"
  /\ fb' = Blank
  /\ UNCHANGED << updateRequired, renderFault >>

\* if (state == st) { draw that screen; displayBuffer(); return; }
renderIf(from, st, hints, to) ==
  /\ activity = "opds"
  /\ IF state = st
       THEN /\ DisplayStep(from, "give")
            /\ fb' = [body |-> st, hints |-> hints]
       ELSE /\ DisplayStep(from, to)
            /\ fb' = Blank
  /\ UNCHANGED << updateRequired, renderingMutex, renderFault >>

RenderCheckWifi == renderIf("render", "CHECK_WIFI", "Back", "r2")

RenderLoading == renderIf("r2", "LOADING", "Back", "r3")

RenderError == renderIf("r3", "ERROR", "Back,Retry", "r4")

RenderDownloading == renderIf("r4", "DOWNLOADING", "", "r5")

\* confirmLabel: !entries.empty() && ...
RenderLabelEmpty ==
  /\ activity = "opds"
  /\ IF entries # << >>
       THEN DisplayStep("r5", "r5b") /\ UNCHANGED fb
       ELSE DisplayStep("r5", "r6") /\ fb' = [fb EXCEPT !.hints = "Back,Open"]
  /\ UNCHANGED << updateRequired, renderingMutex, renderFault >>

\* ... entries[selectorIndex].type == OpdsEntryType::BOOK; a read outside the
\* entry list is undefined: it yields either type and either goes on or faults
RenderLabelType ==
  /\ activity = "opds"
  /\ DisplayStep("r5b", "r6")
  /\ IF selectorIndex < Len(entries)
       THEN /\ fb' = [fb EXCEPT !.hints = IF entries[selectorIndex + 1].type = "BOOK"
                                            THEN "Back,Download" ELSE "Back,Open"]
            /\ UNCHANGED renderFault
       ELSE /\ \E h \in {"Back,Download", "Back,Open"} : fb' = [fb EXCEPT !.hints = h]
            /\ renderFault' \in BOOLEAN
  /\ UNCHANGED << updateRequired, renderingMutex >>

\* if (entries.empty()) { "No entries found"; displayBuffer(); return; }
RenderNoEntries ==
  /\ activity = "opds"
  /\ IF entries = << >>
       THEN /\ DisplayStep("r6", "give")
            /\ fb' = [fb EXCEPT !.body = "No entries found"]
       ELSE /\ DisplayStep("r6", "r7")
            /\ UNCHANGED fb
  /\ UNCHANGED << updateRequired, renderingMutex, renderFault >>

\* the selection bar and the entries of its page; displayBuffer()
RenderList ==
  /\ activity = "opds"
  /\ DisplayStep("r7", "give")
  /\ fb' = [fb EXCEPT !.body = "LIST"]
  /\ UNCHANGED << updateRequired, renderingMutex, renderFault >>

\* NewsSyncActivity::render(), the screen of the state
NewsRenderBody ==
  /\ activity = "news"
  /\ DisplayStep("render", "n2")
  /\ fb' = [body |-> IF state = "CHECK_WIFI" THEN "FETCHING_FEED"
                     ELSE IF state = "SELECT_SOURCE" /\ entries = << >> THEN "No sources found"
                     ELSE state,
            hints |-> ""]
  /\ UNCHANGED << updateRequired, renderingMutex, renderFault >>

\* NewsSyncActivity::render(), the button hints and displayBuffer()
NewsRenderHints ==
  /\ activity = "news"
  /\ DisplayStep("n2", "give")
  /\ fb' = [fb EXCEPT !.hints = IF state = "SELECT_SOURCE" THEN "Back,Download"
                                ELSE IF state \in {"ERROR", "COMPLETE", "CHECK_WIFI"} THEN "Back,Select"
                                ELSE ""]
  /\ UNCHANGED << updateRequired, renderingMutex, renderFault >>

\* CalibreSettingsActivity::render()
SettingsRender ==
  /\ activity = "settings"
  /\ DisplayStep("render", "give")
  /\ fb' = [body |-> menuNames[selectedIndex + 1], hints |-> "Back,Select"]
  /\ UNCHANGED << updateRequired, renderingMutex, renderFault >>

(***************************************************************************)
(* The reader's page cache: two slots, current and adjacent, each holding  *)
(* (index, Page | empty).  The input thread moves the requested index and  *)
(* marks "update needed"; the render thread resolves the requested page,   *)
(* renders it and, when nothing is waiting, prefetches the neighbour.      *)
(***************************************************************************)
PageCount == 5

Pages == 0..(PageCount - 1)

NoPage == [document |-> "", number |-> -1]

EmptySlot == [index |-> -1, page |-> NoPage]

NothingServed == [index |-> -1, page |-> NoPage, sync |-> FALSE]

\* the format loader: the stored page of index n
loadPage(n) == [document |-> "xtc", number |-> n]

\* an out-of-range index clamps, it does not wrap
clamp(n) == IF n < 0 THEN 0 ELSE IF n > PageCount - 1 THEN PageCount - 1 ELSE n

distance(a, b) == IF a < b THEN b - a ELSE a - b

\* a large jump: an explicit jump, or an index more than one step from the page served last
largeJump(n, move, last) == move = "jump" \/ (last.index # -1 /\ distance(n, last.index) > 1)

\* invalidate both slots on a large jump
invalidate(slots, n, move, last) ==
  IF largeJump(n, move, last) THEN [current |-> EmptySlot, adjacent |-> EmptySlot] ELSE slots

resolve_trustsCurrent(slots, n) ==
  IF slots.current.index # -1
    THEN [current |-> slots.current, adjacent |-> slots.adjacent,
          served |-> [index |-> n, page |-> slots.current.page, sync |-> FALSE]]
    ELSE [current |-> [index |-> n, page |-> loadPage(n)], adjacent |-> slots.adjacent,
          served |-> [index |-> n, page |-> loadPage(n), sync |-> TRUE]]

resolve_ignoresAdjacent(slots, n) ==
  IF slots.current.index = n
    THEN [current |-> slots.current, adjacent |-> slots.adjacent,
          served |-> [index |-> n, page |-> slots.current.page, sync |-> FALSE]]
    ELSE [current |-> [index |-> n, page |-> loadPage(n)], adjacent |-> slots.adjacent,
          served |-> [index |-> n, page |-> loadPage(n), sync |-> TRUE]]

\* a page request for index n: a slot whose index is n serves it (the
\* prefetched slot becomes current), otherwise n is loaded synchronously into
\* current, evicting what was there
resolve(slots, n) ==
  IF slots.current.index = n
    THEN [current |-> slots.current, adjacent |-> slots.adjacent,
          served |-> [index |-> n, page |-> slots.current.page, sync |-> FALSE]]
    ELSE IF slots.adjacent.index = n
      THEN [current |-> slots.adjacent, adjacent |-> slots.current,
            served |-> [index |-> n, page |-> slots.adjacent.page, sync |-> FALSE]]
      ELSE [current |-> [index |-> n, page |-> loadPage(n)], adjacent |-> slots.adjacent,
            served |-> [index |-> n, page |-> loadPage(n), sync |-> TRUE]]

renderPage_keepsSlots(slots, n, move, last) == resolve(slots, n)

\* renderPage(): invalidate on a large jump, then resolve the requested page
renderPage(slots, n, move, last) == resolve(invalidate(slots, n, move, last), n)

\* the neighbour to prefetch after serving n
prefetchTarget(n, move) == IF move = "backward" THEN n - 1 ELSE n + 1

\* a page turn: the input thread moves the index by one step and marks "update needed"
ReaderTurn(d) ==
  /\ clamp(requested + d) # requested
  /\ requested' = clamp(requested + d)
  /\ lastMove' = (IF lastMove = "jump" /\ pending THEN "jump"
                  ELSE IF d < 0 THEN "backward" ELSE "forward")
  /\ pending' = TRUE
  /\ UNCHANGED << current, adjacent, served, screenVars, extensionVars >>

\* an explicit jump to a page or section
ReaderJump(n) ==
  /\ requested' = clamp(n)
  /\ lastMove' = "jump"
  /\ pending' = TRUE
  /\ UNCHANGED << current, adjacent, served, screenVars, extensionVars >>

\* the render thread serves the requested page
ReaderRenderPage ==
  /\ pending
  /\ LET r == renderPage([current |-> current, adjacent |-> adjacent], requested, lastMove, served)
     IN /\ current' = r.current
        /\ adjacent' = r.adjacent
        /\ served' = r.served
  /\ pending' = FALSE
  /\ lastMove' = (IF lastMove = "jump" THEN "forward" ELSE lastMove)
  /\ UNCHANGED << requested, screenVars, extensionVars >>

\* after serving, the render thread loads the neighbour into adjacent; best
\* effort: it is given up as soon as an update is needed
ReaderPrefetch ==
  /\ ~pending
  /\ served.index = requested
  /\ prefetchTarget(requested, lastMove) \in Pages
  /\ adjacent.index # prefetchTarget(requested, lastMove)
  /\ adjacent' = [index |-> prefetchTarget(requested, lastMove),
                  page |-> loadPage(prefetchTarget(requested, lastMove))]
  /\ UNCHANGED << current, requested, lastMove, pending, served, screenVars, extensionVars >>

ReaderInit ==
  /\ current = EmptySlot
  /\ adjacent = EmptySlot
  /\ requested = 0
  /\ lastMove = "forward"
  /\ pending = TRUE
  /\ served = NothingServed

(***************************************************************************)
(* The browser extension: the service worker's onMessage handler, the      *)
(* content script's article extraction and the host's ingest endpoints     *)
(***************************************************************************)
DEFAULT_MAX_ITEMS == 20

MaxItems == 22

Browsers == {"chrome", "firefox"}

\* a document, by what the extraction reads of it: what Readability.parse()
\* does, the text left of its content after cleanup (against
\* MIN_ARTICLE_TEXT_LENGTH), the node fallbackContentHtml picks, whether that
\* node's innerHTML is empty and whether cleanup removes all of it
Docs == [readability : {"throws", "null", "empty", "content"},
         readableText : {"none", "short", "long"},
         node : {"article", "main", "body"},
         nodeEmpty : BOOLEAN,
         nodeJunk : BOOLEAN]

NoDoc == [readability |-> "null", readableText |-> "none", node |-> "body",
          nodeEmpty |-> TRUE, nodeJunk |-> TRUE]

\* an HTML string: where it was taken from, whether cleanup ran, whether it is ""
NoHtml == [from |-> "", cleaned |-> FALSE, empty |-> TRUE]

outerHTML == [from |-> "documentElement.outerHTML", cleaned |-> FALSE, empty |-> FALSE]

readabilityContent(d) == [from |-> "readability", cleaned |-> FALSE, empty |-> d.readability # "content"]

\* article && article.content
readabilitySucceeded(d) == d.readability = "content"

\* chrome content script, extractArticle()
extractArticle(d) ==
  IF readabilitySucceeded(d)
    THEN [content_html |-> readabilityContent(d)]
    ELSE [content_html |-> outerHTML]

\* firefox content script, fallbackContentHtml()
fallbackContentHtml(d) == [from |-> d.node \o ".innerHTML", cleaned |-> FALSE, empty |-> d.nodeEmpty]

\* firefox content script, cleanupArticleHtml(): the body's innerHTML of the cleaned document
cleanupArticleHtml(html, d) ==
  [from |-> html.from, cleaned |-> TRUE,
   empty |-> \/ html.empty
             \/ (IF html.from = "readability" THEN d.readableText = "none" ELSE d.nodeJunk)]

\* firefox content script, extractArticleFromDocument()
extractArticleFromDocument(d) ==
  IF readabilitySucceeded(d)
    THEN IF d.readableText # "long"
           THEN [content_html |-> cleanupArticleHtml(fallbackContentHtml(d), d)]
           ELSE [content_html |-> cleanupArticleHtml(readabilityContent(d), d)]
    ELSE [content_html |-> cleanupArticleHtml(fallbackContentHtml(d), d)]

\* the content script's answer to captureArticle
captureArticle(b, d) == IF b = "chrome" THEN extractArticle(d) ELSE extractArticleFromDocument(d)

NoArticle == [content_html |-> NoHtml]

\* the URLs of a page with n links
Urls(n) == [i \in 1..n |-> i]

\* the patterns of failing URLs
BrokenSets(n) == {{}, 1..n, {1} \cap 1..n, {n} \cap 1..n, {i \in 1..n : i % 2 = 1}}

\* withMobileUAForTab(tabId, enabled) registers a listener in firefox alone
mobileUA == browser = "firefox" /\ useMobileUA

\* items.slice(0, DEFAULT_MAX_ITEMS)
limited == SubSeq(items, 1, IF Len(items) < DEFAULT_MAX_ITEMS THEN Len(items) ELSE DEFAULT_MAX_ITEMS)

\* results.filter((result) => result.status === "ok").length
okCount == Cardinality({i \in 1..Len(results) : results[i].status = "ok"})

\* no sendMessageWithRetry has been called and no tab has the content scripts
RetryIdle ==
  /\ sendPc = "idle"
  /\ sendTab = 0
  /\ attempt = 0
  /\ lastError = "null"
  /\ sendResult = ""
  /\ injectedTabs = {}
  /\ listening = {}
  /\ events = << >>

\* who calls appendLog: writeLog inside handleAction, and the onMessage
\* listener for a 'log' message of the panel
LogCallers == {"writeLog", "onMessage"}

\* the log before any call of the behaviour: n entries appended one by one
LogIdle(n) ==
  /\ logs = [i \in 1..n |-> i]
  /\ appended = [i \in 1..n |-> i]
  /\ nextEntry = n + 1
  /\ logCalls = 0
  /\ logPc = [c \in LogCallers |-> "idle"]
  /\ logLocal = [c \in LogCallers |-> << >>]
  /\ logEntry = [c \in LogCallers |-> 0]
  /\ overlapped = FALSE

HandlerIdle ==
  /\ swPc = "idle"
  /\ popupMessage = [action |-> "", bulkCapture |-> FALSE]
  /\ doc = NoDoc
  /\ items = << >>
  /\ broken = {}
  /\ stuck = {}
  /\ limitedIndex = 0
  /\ tab = 0
  /\ results = << >>
  /\ attempts = << >>
  /\ snapshot = [saved |-> FALSE, items |-> << >>]
  /\ ingested = {}
  /\ issueBuilds = 0
  /\ article = NoArticle
  /\ payload = NoHtml
  /\ response = ""
  /\ openTabs = {}
  /\ uaListeners = {}

\* no capture tab
LoadIdle ==
  /\ loadPc = "idle"
  /\ loadItem = 0
  /\ tabPage = "none"
  /\ tabStatus = "complete"
  /\ pendingUrl = FALSE
  /\ loadListener = FALSE
  /\ resolvedOn = "none"
  /\ targetCompleted = FALSE

\* no message, no call, an empty log and no capture tab
ExtensionIdle ==
  /\ HandlerIdle
  /\ RetryIdle
  /\ LogIdle(0)
  /\ LoadIdle

\* chrome.runtime.onMessage: the popup's message arrives
OnMessage(action, shouldBulk) ==
  /\ swPc = "idle"
  /\ popupMessage' = [action |-> action, bulkCapture |-> shouldBulk]
  /\ swPc' = (IF action = "updateBook" THEN "extractList" ELSE "captureArticle")
  /\ UNCHANGED << browser, doc, items, broken, limitedIndex, tab, results, attempts, snapshot,
                  ingested, issueBuilds, article, payload, response, screenVars, readerVars, workerVars, useMobileUA, captureTabs, stuck >>

\* updateBook: items = await extractListFromTab(tab.id)
\* (the failing URLs fail in the update of the capture tab, which the mobile
\* User-Agent capture of firefox alone performs, or all of them elsewhere)
ExtractList(n, b, update) ==
  /\ swPc = "extractList"
  /\ update => mobileUA
  /\ items' = Urls(n)
  /\ broken' = b
  /\ stuck' = (IF update THEN b ELSE {})
  /\ swPc' = "postSnapshot"
  /\ UNCHANGED << browser, popupMessage, doc, limitedIndex, tab, results, attempts, snapshot,
                  ingested, issueBuilds, article, payload, response, screenVars, readerVars, workerVars, useMobileUA, captureTabs >>

\* updateBook: await postJson(.../snapshot, { items }), then bulkCapture or the response
PostSnapshot(ok) ==
  /\ swPc = "postSnapshot"
  /\ IF ok
       THEN /\ snapshot' = [saved |-> TRUE, items |-> items]
            /\ IF popupMessage.bulkCapture
                 THEN swPc' = "for" /\ response' = response
                 ELSE swPc' = "done" /\ response' = "Snapshot saved"
       ELSE /\ snapshot' = snapshot
            /\ swPc' = "done"
            /\ response' = "error"
  /\ UNCHANGED << browser, popupMessage, doc, items, broken, limitedIndex, tab, results, attempts,
                  ingested, issueBuilds, article, payload, screenVars, readerVars, workerVars, useMobileUA, captureTabs, stuck >>

\* bulkCapture, for (const item of limited): tab = await chrome.tabs.create(...);
\* in firefox openCaptureTab, which for the mobile User-Agent creates the tab on
\* about:blank, registers the listener and only then loads the URL
BulkCreateTab(created) ==
  /\ swPc = "for"
  /\ limitedIndex < Len(limited)
  /\ LET item == limited[limitedIndex + 1]
     IN /\ attempts' = Append(attempts, item)
        /\ IF created
             THEN /\ openTabs' = openTabs \cup {item}
                  /\ results' = results
                  /\ IF mobileUA
                       THEN /\ uaListeners' = uaListeners \cup {item}
                            /\ tab' = 0
                            /\ swPc' = "tabs.update"
                       ELSE /\ uaListeners' = uaListeners
                            /\ tab' = item
                            /\ swPc' = "try"
             ELSE /\ item \in broken \ stuck
                  /\ tab' = 0
                  /\ results' = Append(results, [url |-> item, status |-> "error"])
                  /\ swPc' = "finally"
                  /\ UNCHANGED captureTabs
  /\ UNCHANGED << browser, popupMessage, doc, items, broken, limitedIndex, snapshot,
                  ingested, issueBuilds, article, payload, response, screenVars, readerVars, workerVars,
                  useMobileUA, stuck >>

\* openCaptureTab: await browser.tabs.update(tab.id, { url }); return { tab, removeListener };
\* when the update rejects, bulkCapture's tab and removeListener keep their initial values
OpenCaptureTabUpdate(updated) ==
  /\ swPc = "tabs.update"
  /\ LET item == limited[limitedIndex + 1]
     IN IF updated
          THEN /\ item \notin stuck
               /\ tab' = item
               /\ results' = results
               /\ swPc' = "try"
          ELSE /\ item \in stuck
               /\ tab' = 0
               /\ results' = Append(results, [url |-> item, status |-> "error"])
               /\ swPc' = "finally"
  /\ UNCHANGED << browser, popupMessage, doc, items, broken, limitedIndex, attempts, snapshot,
                  ingested, issueBuilds, article, payload, response, screenVars, readerVars, workerVars,
                  useMobileUA, captureTabs, stuck >>

\* bulkCapture, the rest of the try block: load, capture, ingest, results.push
BulkCapture ==
  /\ swPc = "try"
  /\ LET item == limited[limitedIndex + 1]
     IN IF item \in broken
          THEN /\ results' = Append(results, [url |-> item, status |-> "error"])
               /\ ingested' = ingested
          ELSE /\ results' = Append(results, [url |-> item, status |-> "ok"])
               /\ ingested' = ingested \cup {item}
  /\ swPc' = "finally"
  /\ UNCHANGED << browser, popupMessage, doc, items, broken, limitedIndex, tab, attempts, snapshot,
                  issueBuilds, article, payload, response, screenVars, readerVars, workerVars, useMobileUA, captureTabs, stuck >>

\* bulkCapture, finally: removeListener(), await chrome.tabs.remove(tab.id), then
\* sleep; tabs.remove rejects when there is no tab of that id any more
BulkFinally(removed) ==
  /\ swPc = "finally"
  /\ uaListeners' = (IF tab # 0 THEN uaListeners \ {tab} ELSE uaListeners)
  /\ openTabs' = (IF tab # 0 THEN openTabs \ {tab} ELSE openTabs)
  /\ IF tab = 0 \/ removed
       THEN /\ tab' = 0
            /\ limitedIndex' = limitedIndex + 1
            /\ swPc' = "for"
            /\ response' = response
       ELSE /\ tab' = tab
            /\ limitedIndex' = limitedIndex
            /\ swPc' = "done"
            /\ response' = "error"
  /\ UNCHANGED << browser, popupMessage, doc, items, broken, results, attempts, snapshot,
                  ingested, issueBuilds, article, payload, screenVars, readerVars, workerVars, useMobileUA,
                  stuck >>

\* bulkCapture returns results; updateBook counts the ok ones
BulkReturn ==
  /\ swPc = "for"
  /\ limitedIndex = Len(limited)
  /\ IF okCount > 0
       THEN swPc' = "build" /\ response' = response
       ELSE swPc' = "done" /\ response' = "Snapshot saved. Bulk captured. Issue not built."
  /\ UNCHANGED << browser, popupMessage, doc, items, broken, limitedIndex, tab, results, attempts,
                  snapshot, ingested, issueBuilds, article, payload, screenVars, readerVars, workerVars, useMobileUA, captureTabs, stuck >>

\* updateBook: await postJson(.../issue/build, {})
BuildIssue(ok) ==
  /\ swPc = "build"
  /\ issueBuilds' = (IF ok THEN issueBuilds + 1 ELSE issueBuilds)
  /\ response' = (IF ok THEN "Snapshot saved. Bulk captured. Issue built."
                  ELSE "Snapshot saved. Bulk captured. Issue build failed")
  /\ swPc' = "done"
  /\ UNCHANGED << browser, popupMessage, doc, items, broken, limitedIndex, tab, results, attempts,
                  snapshot, ingested, article, payload, screenVars, readerVars, workerVars, useMobileUA, captureTabs, stuck >>

\* sendArticle: article = await captureArticleFromTab(tab.id), then the check of content_html
CaptureArticle(d, answered) ==
  /\ swPc = "captureArticle"
  /\ doc' = d
  /\ IF answered
       THEN /\ article' = captureArticle(browser, d)
            /\ IF article'.content_html.empty
                 THEN swPc' = "done" /\ response' = "Article extraction failed"
                 ELSE swPc' = "ingest" /\ response' = response
       ELSE /\ article' = article
            /\ swPc' = "done"
            /\ response' = "error"
  /\ UNCHANGED << browser, popupMessage, items, broken, limitedIndex, tab, results, attempts,
                  snapshot, ingested, issueBuilds, payload, screenVars, readerVars, workerVars, useMobileUA, captureTabs, stuck >>

\* sendArticle: await postJson(.../articles/ingest, {..., content_html, ...})
IngestArticle(ok) ==
  /\ swPc = "ingest"
  /\ payload' = (IF ok THEN article.content_html ELSE payload)
  /\ response' = (IF ok THEN "Article sent." ELSE "error")
  /\ swPc' = "done"
  /\ UNCHANGED << browser, popupMessage, doc, items, broken, limitedIndex, tab, results, attempts,
                  snapshot, ingested, issueBuilds, article, screenVars, readerVars, workerVars, useMobileUA, captureTabs, stuck >>

(***************************************************************************)
(* The firefox service worker: sendMessageWithRetry                        *)
(***************************************************************************)
RETRY_ATTEMPTS == 5

Tabs == {1, 2}

\* what browser.tabs.sendMessage does: it answers, or it rejects with
\* 'Could not establish connection. Receiving end does not exist.' or with
\* another error
SendOutcomes == {"response", "connection", "other"}

\* what the actions of sendMessageWithRetry leave alone
RetryFrame == << screenVars, readerVars, handlerVars, logVars, loadVars >>

\* a shouldRetryError that retries after every error
shouldRetryError_any(error) == TRUE

shouldRetryError(error) == error = "connection"

\* sendMessageWithRetry(tabId, message) is called
SendMessageWithRetry(tabId) ==
  /\ sendPc = "idle"
  /\ sendPc' = "ensure"
  /\ sendTab' = tabId
  /\ attempt' = 0
  /\ lastError' = "null"
  /\ sendResult' = ""
  /\ events' = << >>
  /\ UNCHANGED << injectedTabs, listening, RetryFrame >>

\* ensureContentScriptsIfNeeded(tabId, logOnInject): nothing for a tab of
\* injectedTabs; otherwise ensureContentScripts, whose executeScript calls may
\* fail unnoticed, and injectedTabs.add(tabId)
ensureContentScriptsIfNeeded(from, to, injected) ==
  /\ sendPc = from
  /\ sendPc' = to
  /\ IF sendTab \in injectedTabs
       THEN UNCHANGED << injectedTabs, listening, events >>
       ELSE /\ injectedTabs' = injectedTabs \cup {sendTab}
            /\ listening' = (IF injected THEN listening \cup {sendTab} ELSE listening)
            /\ events' = Append(events, "inject")
  /\ UNCHANGED << sendTab, attempt, lastError, sendResult, RetryFrame >>

\* await ensureContentScriptsIfNeeded(tabId, false), before the loop
EnsureBeforeLoop(injected) == ensureContentScriptsIfNeeded("ensure", "send", injected)

\* if (attempt === 0) await ensureContentScriptsIfNeeded(tabId, true), in the catch
EnsureInCatch(injected) == ensureContentScriptsIfNeeded("catch", "sleep", injected)

\* try { return await browser.tabs.sendMessage(tabId, message) } catch (error) {...}:
\* the connection error is the answer of a tab in which no content script listens
TabsSendMessage(outcome) ==
  /\ sendPc = "send"
  /\ outcome = "connection" <=> sendTab \notin listening
  /\ events' = Append(events, "send")
  /\ IF outcome = "response"
       THEN /\ sendPc' = "returned"
            /\ sendResult' = "response"
            /\ lastError' = lastError
       ELSE /\ lastError' = outcome
            /\ IF ~shouldRetryError(outcome)
                 THEN sendPc' = "thrown" /\ sendResult' = outcome
                 ELSE /\ sendPc' = (IF attempt = 0 THEN "catch" ELSE "sleep")
                      /\ sendResult' = sendResult
  /\ UNCHANGED << sendTab, attempt, injectedTabs, listening, RetryFrame >>

\* await sleep(RETRY_DELAY_MS); attempt += 1; after the loop: throw lastError
RetrySleep ==
  /\ sendPc = "sleep"
  /\ attempt' = attempt + 1
  /\ IF attempt + 1 < RETRY_ATTEMPTS
       THEN sendPc' = "send" /\ sendResult' = sendResult
       ELSE sendPc' = "thrown" /\ sendResult' = lastError
  /\ UNCHANGED << sendTab, lastError, injectedTabs, listening, events, RetryFrame >>

\* the caller has the response or the error
RetrySettled ==
  /\ sendPc \in {"returned", "thrown"}
  /\ sendPc' = "idle"
  /\ UNCHANGED << sendTab, attempt, lastError, sendResult, injectedTabs, listening, events,
                  RetryFrame >>

\* a tab loads a page: its content scripts are gone, and the page's own
\* (declared in the manifest) start listening or do not
TabLoads(t, scripts) ==
  /\ listening' = (IF scripts THEN listening \cup {t} ELSE listening \ {t})
  /\ listening' # listening
  /\ UNCHANGED << sendPc, sendTab, attempt, lastError, sendResult, injectedTabs, events,
                  RetryFrame >>

(***************************************************************************)
(* The firefox service worker: the stored log                              *)
(***************************************************************************)
LOG_MAX == 200

\* the appendLog calls of one behaviour
MaxLogCalls == 3

\* what the actions on the log leave alone
LogFrame == << screenVars, readerVars, handlerVars, retryVars, loadVars >>

\* a slice that keeps the oldest entries
slice_oldest(s, n) == IF Len(s) <= n THEN s ELSE SubSeq(s, 1, n)

\* logs.slice(-n)
slice(s, n) == IF Len(s) <= n THEN s ELSE SubSeq(s, Len(s) - n + 1, Len(s))

\* an appendLog call is between its first line and its last
InFlight(c) == logPc[c] # "idle"

\* appendLog(entry) is called
AppendLog(c) ==
  /\ ~InFlight(c)
  /\ logCalls < MaxLogCalls
  /\ logCalls' = logCalls + 1
  /\ nextEntry' = nextEntry + 1
  /\ logPc' = [logPc EXCEPT ![c] = "storage.get"]
  /\ logEntry' = [logEntry EXCEPT ![c] = nextEntry]
  /\ overlapped' = (overlapped \/ \E d \in LogCallers \ {c} : InFlight(d))
  /\ UNCHANGED << logs, logLocal, appended, LogFrame >>

\* stored = await browser.storage.local.get(LOG_KEY); logs = stored[LOG_KEY] or []
LogGet(c) ==
  /\ logPc[c] = "storage.get"
  /\ logLocal' = [logLocal EXCEPT ![c] = logs]
  /\ logPc' = [logPc EXCEPT ![c] = "storage.set"]
  /\ UNCHANGED << logs, logEntry, appended, nextEntry, logCalls, overlapped, LogFrame >>

\* logs.push(entry); trimmed = logs.slice(-LOG_MAX);
\* await browser.storage.local.set({ [LOG_KEY]: trimmed }), which can reject
LogSet(c, ok) ==
  /\ logPc[c] = "storage.set"
  /\ IF ok
       THEN /\ logs' = slice(Append(logLocal[c], logEntry[c]), LOG_MAX)
            /\ appended' = Append(appended, logEntry[c])
       ELSE UNCHANGED << logs, appended >>
  /\ logPc' = [logPc EXCEPT ![c] = "idle"]
  /\ logLocal' = [logLocal EXCEPT ![c] = << >>]
  /\ logEntry' = [logEntry EXCEPT ![c] = 0]
  /\ UNCHANGED << nextEntry, logCalls, overlapped, LogFrame >>

(***************************************************************************)
(* The firefox service worker: waiting for a capture tab to load           *)
(***************************************************************************)
\* the capture tabs of one behaviour
MaxLoads == 3

\* what the actions on a capture tab leave alone
LoadFrame == << screenVars, readerVars, handlerVars, retryVars, logVars >>

\* openCaptureTab(item.url, useMobileUA) calls browser.tabs.create, with the
\* placeholder about:blank when the mobile user agent is asked for
OpenCaptureTab ==
  /\ loadPc = "idle"
  /\ loadItem < MaxLoads
  /\ loadItem' = loadItem + 1
  /\ tabPage' = IF useMobileUA THEN "about:blank" ELSE "target"
  /\ tabStatus' = "loading"
  /\ pendingUrl' = FALSE
  /\ loadListener' = FALSE
  /\ resolvedOn' = "none"
  /\ targetCompleted' = FALSE
  /\ loadPc' = "tabs.create"
  /\ UNCHANGED LoadFrame

\* tabs.create resolves: with the mobile user agent tabs.update(tab.id, {url})
\* is called, otherwise openCaptureTab returns and waitForTabLoad registers
\* its listener
TabsCreateResolves ==
  /\ loadPc = "tabs.create"
  /\ IF useMobileUA
       THEN /\ pendingUrl' = TRUE
            /\ loadPc' = "tabs.update"
            /\ UNCHANGED loadListener
       ELSE /\ loadListener' = TRUE
            /\ loadPc' = "waitForTabLoad"
            /\ UNCHANGED pendingUrl
  /\ UNCHANGED << loadItem, tabPage, tabStatus, resolvedOn, targetCompleted, LoadFrame >>

\* tabs.update resolves, openCaptureTab returns and waitForTabLoad registers
\* its listener
TabsUpdateResolves ==
  /\ loadPc = "tabs.update"
  /\ loadListener' = TRUE
  /\ loadPc' = "waitForTabLoad"
  /\ UNCHANGED << loadItem, tabPage, tabStatus, pendingUrl, resolvedOn, targetCompleted, LoadFrame >>

\* the browser: the tab starts to load the url tabs.update gave it
NavigationStarts ==
  /\ pendingUrl
  /\ pendingUrl' = FALSE
  /\ tabPage' = "target"
  /\ tabStatus' = "loading"
  /\ UNCHANGED << loadPc, loadItem, loadListener, resolvedOn, targetCompleted, LoadFrame >>

\* the browser: the page of the tab finishes loading and tabs.onUpdated
\* reports status "complete"; the listener of waitForTabLoad, if registered,
\* removes itself and resolves
PageCompletes ==
  /\ tabPage # "none"
  /\ tabStatus = "loading"
  /\ tabStatus' = "complete"
  /\ targetCompleted' = (targetCompleted \/ (tabPage = "target" /\ loadPc # "timeout"))
  /\ IF loadListener
       THEN /\ loadListener' = FALSE
            /\ resolvedOn' = tabPage
            /\ loadPc' = "captureArticleFromTab"
       ELSE UNCHANGED << loadListener, resolvedOn, loadPc >>
  /\ UNCHANGED << loadItem, tabPage, pendingUrl, LoadFrame >>

\* the 20 s timer of waitForTabLoad fires: the listener is removed and the
\* promise rejects
LoadTimeout ==
  /\ loadPc = "waitForTabLoad"
  /\ loadListener' = FALSE
  /\ loadPc' = "timeout"
  /\ UNCHANGED << loadItem, tabPage, tabStatus, pendingUrl, resolvedOn, targetCompleted, LoadFrame >>

\* the rest of the loop body: the result is pushed and the tab removed
CaptureDone ==
  /\ loadPc \in {"captureArticleFromTab", "timeout"}
  /\ loadPc' = "idle"
  /\ tabPage' = "none"
  /\ tabStatus' = "complete"
  /\ pendingUrl' = FALSE
  /\ UNCHANGED << loadItem, loadListener, resolvedOn, targetCompleted, LoadFrame >>

(***************************************************************************)
(* The specification                                                       *)
(***************************************************************************)
Init ==
  /\ activity = "home"
  /\ state = "CHECK_WIFI"
  /\ entries = << >>
  /\ navigationHistory = << >>
  /\ currentPath = ""
  /\ selectorIndex = 0
  /\ errorMessage = ""
  /\ statusMessage = ""
  /\ updateRequired = FALSE
  /\ subActivity = FALSE
  /\ subActivityType = ""
  /\ selectedIndex = 0
  /\ ipc = "home"
  /\ call = NoCall
  /\ wifi \in BOOLEAN
  /\ serverUrl \in BOOLEAN
  /\ files \in {{}, Dests}
  /\ truncated = {}
  /\ cache \in {files, Dests}   \* a cache folder can outlive its file
  /\ displayTaskHandle = FALSE
  /\ renderingMutex = "null"
  /\ dpc = "deleted"
  /\ fb = Blank
  /\ renderFault = FALSE
  /\ leftIndex = << >>
  /\ ReaderInit
  /\ browser = "chrome"
  /\ useMobileUA = FALSE
  /\ ExtensionIdle

Next ==
  \/ EnterOpds
  \/ EnterNews
  \/ \E b \in Buttons, skipPage \in BOOLEAN : OpdsLoop(b, skipPage)
  \/ \E result \in FetchResults(call.url.base) : OpdsFetchReturn(result)
  \/ Progress
  \/ \E result \in DownloadResults : OpdsDownloadReturn(result)
  \/ \E connected \in BOOLEAN : OpdsWifiSelectionComplete(connected)
  \/ \E b \in Buttons : NewsLoop(b)
  \/ \E result \in FetchResults(call.url.base) : NewsFetchReturn(result)
  \/ \E result \in DownloadResults : NewsDownloadReturn(result)
  \/ \E connected \in BOOLEAN : NewsWifiSelectionComplete(connected)
  \/ EnterSettings
  \/ \E b \in Buttons : SettingsLoop(b)
  \/ SettingsTake
  \/ SettingsLaunch
  \/ \E empty \in BOOLEAN : SettingsKeyboardComplete(empty)
  \/ SettingsSubActivityDone
  \/ \E connected \in BOOLEAN : SettingsWifiSelectionComplete(connected)
  \/ SettingsRender
  \/ Exit
  \/ WifiLost
  \/ Poll \/ Clear \/ Take \/ Give
  \/ RenderCheckWifi \/ RenderLoading \/ RenderError \/ RenderDownloading
  \/ RenderLabelEmpty \/ RenderLabelType \/ RenderNoEntries \/ RenderList
  \/ NewsRenderBody \/ NewsRenderHints

Spec == Init /\ [][Next]_vars

\* a step of the display task
DisplayTask ==
  \/ Poll \/ Clear \/ Take \/ Give
  \/ RenderCheckWifi \/ RenderLoading \/ RenderError \/ RenderDownloading
  \/ RenderLabelEmpty \/ RenderLabelType \/ RenderNoEntries \/ RenderList
  \/ NewsRenderBody \/ NewsRenderHints
  \/ SettingsRender

\* the display task polls every 10 ms, so it takes a step that is possible
\* again and again; a task blocked in xSemaphoreTake gets the mutex when it is
\* given; handleSelection, once it holds the mutex, runs on to xSemaphoreGive,
\* as onExit runs once it has been called; nothing is assumed of the user, the
\* network or the sub-activities
Fairness ==
  /\ SF_vars(DisplayTask)
  /\ WF_vars(SettingsLaunch)
  /\ SF_vars(Exit)

SpecFair == Spec /\ Fairness

(***************************************************************************)
(* The selector moves on listings of every length up to MaxEntries         *)
(***************************************************************************)
\* a listing of n entries as a fetch delivers it
Listing(n, entry) == [i \in 1..n |-> entry]

InitMove ==
  /\ activity \in {"opds", "news", "settings"}
  /\ state = (IF activity = "news" THEN "SELECT_SOURCE" ELSE "BROWSING")
  /\ \E n \in 1..MaxEntries :
       /\ entries = (IF activity = "opds" THEN Listing(n, NavEntry("Shelf", "shelf"))
                     ELSE IF activity = "news" THEN Listing(n, BookEntry("N", ".epub", ".xtch"))
                     ELSE << >>)
       /\ IF activity = "settings"
            THEN selectorIndex = 0 /\ n = 1
            ELSE selectorIndex \in 0..(n - 1)
  /\ selectedIndex \in (IF activity = "settings" THEN 0..(MENU_ITEMS - 1) ELSE {0})
  /\ navigationHistory = << >>
  /\ currentPath = (IF activity = "opds" THEN OPDS_ROOT_PATH ELSE "")
  /\ errorMessage = ""
  /\ statusMessage = (IF activity = "opds" THEN "Loading..."
                      ELSE IF activity = "news" THEN "Select source" ELSE "")
  /\ updateRequired = FALSE
  /\ subActivity = FALSE
  /\ subActivityType = ""
  /\ ipc = "loop"
  /\ call = NoCall
  /\ wifi = TRUE
  /\ serverUrl = TRUE
  /\ files = {}
  /\ truncated = {}
  /\ cache = {}
  /\ displayTaskHandle = TRUE
  /\ renderingMutex = "free"
  /\ dpc = "poll"
  /\ fb = Blank
  /\ renderFault = FALSE
  /\ leftIndex = << >>
  /\ ReaderInit
  /\ browser = "chrome"
  /\ useMobileUA = FALSE
  /\ ExtensionIdle

Moves == {"Prev", "Next"}

NextMove ==
  \/ \E b \in Moves, skipPage \in BOOLEAN : OpdsLoop(b, skipPage)
  \/ \E b \in Moves : NewsLoop(b)
  \/ \E b \in Moves : SettingsLoop(b)

SpecMove == InitMove /\ [][NextMove]_vars

\* a listing screen on a listing of one book, for every shape of the entry's hrefs
HrefExts == {".epub", ".xtc"}

HrefXtcExts == {"", ".xtc", ".xtch"}

InitHref ==
  /\ activity \in {"opds", "news"}
  /\ state = (IF activity = "news" THEN "SELECT_SOURCE" ELSE "BROWSING")
  /\ \E title \in {"A", "N"}, ext \in HrefExts, xtcExt \in HrefXtcExts :
       entries = << BookEntry(title, ext, xtcExt) >>
  /\ selectorIndex = 0
  /\ selectedIndex = 0
  /\ navigationHistory = << >>
  /\ currentPath = (IF activity = "opds" THEN OPDS_ROOT_PATH ELSE "")
  /\ errorMessage = ""
  /\ statusMessage = (IF activity = "opds" THEN "Loading..." ELSE "Select source")
  /\ updateRequired = FALSE
  /\ subActivity = FALSE
  /\ subActivityType = ""
  /\ ipc = "loop"
  /\ call = NoCall
  /\ wifi = TRUE
  /\ serverUrl = TRUE
  /\ files = {}
  /\ truncated = {}
  /\ cache = {}
  /\ displayTaskHandle = TRUE
  /\ renderingMutex = "free"
  /\ dpc = "poll"
  /\ fb = Blank
  /\ renderFault = FALSE
  /\ leftIndex = << >>
  /\ ReaderInit
  /\ browser = "chrome"
  /\ useMobileUA = FALSE
  /\ ExtensionIdle

NextHref ==
  \/ \E skipPage \in BOOLEAN : OpdsLoop("Confirm", skipPage)
  \/ NewsLoop("Confirm")
  \/ \E result \in DownloadResults : OpdsDownloadReturn(result)
  \/ \E result \in DownloadResults : NewsDownloadReturn(result)

SpecHref == InitHref /\ [][NextHref]_vars

\* the reader alone, the screens staying at home
InitRing ==
  /\ Init
  /\ wifi
  /\ serverUrl
  /\ files = {}
  /\ cache = {}

NextRing ==
  \/ \E d \in {-1, 1} : ReaderTurn(d)
  \/ \E n \in Pages : ReaderJump(n)
  \/ ReaderRenderPage
  \/ ReaderPrefetch

SpecRing == InitRing /\ [][NextRing]_vars

\* the extension alone, in either browser
InitExt ==
  /\ activity = "home"
  /\ state = "CHECK_WIFI"
  /\ entries = << >>
  /\ navigationHistory = << >>
  /\ currentPath = ""
  /\ selectorIndex = 0
  /\ errorMessage = ""
  /\ statusMessage = ""
  /\ updateRequired = FALSE
  /\ subActivity = FALSE
  /\ subActivityType = ""
  /\ selectedIndex = 0
  /\ ipc = "home"
  /\ call = NoCall
  /\ wifi = TRUE
  /\ serverUrl = TRUE
  /\ files = {}
  /\ truncated = {}
  /\ cache = {}
  /\ displayTaskHandle = FALSE
  /\ renderingMutex = "null"
  /\ dpc = "deleted"
  /\ fb = Blank
  /\ renderFault = FALSE
  /\ leftIndex = << >>
  /\ ReaderInit
  /\ browser \in Browsers
  /\ useMobileUA \in (IF browser = "firefox" THEN BOOLEAN ELSE {FALSE})
  /\ ExtensionIdle

NextExt ==
  \/ \E action \in {"updateBook", "sendArticle"}, shouldBulk \in BOOLEAN : OnMessage(action, shouldBulk)
  \/ \E n \in 0..MaxItems, update \in BOOLEAN : \E b \in BrokenSets(n) : ExtractList(n, b, update)
  \/ \E ok \in BOOLEAN : PostSnapshot(ok)
  \/ \E created \in BOOLEAN : BulkCreateTab(created)
  \/ \E updated \in BOOLEAN : OpenCaptureTabUpdate(updated)
  \/ BulkCapture
  \/ \E removed \in BOOLEAN : BulkFinally(removed)
  \/ BulkReturn
  \/ \E ok \in BOOLEAN : BuildIssue(ok)
  \/ \E d \in Docs, answered \in BOOLEAN : CaptureArticle(d, answered)
  \/ \E ok \in BOOLEAN : IngestArticle(ok)

SpecExt == InitExt /\ [][NextExt]_vars

\* the firefox service worker's sendMessageWithRetry alone
InitRetry ==
  /\ InitExt
  /\ browser = "firefox"
  /\ ~useMobileUA

NextRetry ==
  \/ \E tabId \in Tabs : SendMessageWithRetry(tabId)
  \/ \E injected \in BOOLEAN : EnsureBeforeLoop(injected)
  \/ \E outcome \in SendOutcomes : TabsSendMessage(outcome)
  \/ \E injected \in BOOLEAN : EnsureInCatch(injected)
  \/ RetrySleep
  \/ RetrySettled
  \/ \E t \in Tabs, scripts \in BOOLEAN : TabLoads(t, scripts)

SpecRetry == InitRetry /\ [][NextRetry]_vars

\* a step of sendMessageWithRetry
RetryStep ==
  \/ \E injected \in BOOLEAN : EnsureBeforeLoop(injected)
  \/ \E outcome \in SendOutcomes : TabsSendMessage(outcome)
  \/ \E injected \in BOOLEAN : EnsureInCatch(injected)
  \/ RetrySleep

\* every call sendMessageWithRetry awaits settles (executeScript, sendMessage,
\* the timer); nothing is assumed of the tabs or of the callers
SpecRetryFair == SpecRetry /\ WF_vars(RetryStep)

\* the stored log alone, from a log of any length a sequence of appends leaves
InitLog ==
  /\ activity = "home"
  /\ state = "CHECK_WIFI"
  /\ entries = << >>
  /\ navigationHistory = << >>
  /\ currentPath = ""
  /\ selectorIndex = 0
  /\ errorMessage = ""
  /\ statusMessage = ""
  /\ updateRequired = FALSE
  /\ subActivity = FALSE
  /\ subActivityType = ""
  /\ selectedIndex = 0
  /\ ipc = "home"
  /\ call = NoCall
  /\ wifi = TRUE
  /\ serverUrl = TRUE
  /\ files = {}
  /\ truncated = {}
  /\ cache = {}
  /\ displayTaskHandle = FALSE
  /\ renderingMutex = "null"
  /\ dpc = "deleted"
  /\ fb = Blank
  /\ renderFault = FALSE
  /\ leftIndex = << >>
  /\ ReaderInit
  /\ browser = "firefox"
  /\ useMobileUA = FALSE
  /\ HandlerIdle
  /\ RetryIdle
  /\ \E n \in 0..LOG_MAX : LogIdle(n)
  /\ LoadIdle

NextLog ==
  \/ \E c \in LogCallers : AppendLog(c)
  \/ \E c \in LogCallers : LogGet(c)
  \/ \E c \in LogCallers, ok \in BOOLEAN : LogSet(c, ok)

SpecLog == InitLog /\ [][NextLog]_vars

\* the capture tabs alone, in firefox with and without the mobile user agent
InitLoad == InitExt /\ browser = "firefox"

NextLoad ==
  \/ OpenCaptureTab
  \/ TabsCreateResolves
  \/ TabsUpdateResolves
  \/ NavigationStarts
  \/ PageCompletes
  \/ LoadTimeout
  \/ CaptureDone

SpecLoad == InitLoad /\ [][NextLoad]_vars

(***************************************************************************)
(* Navigation history                                                      *)
(***************************************************************************)
\* a pass of loop() that observes Back where loop() calls navigateBack
BackPass ==
  /\ state \in {"BROWSING", "ERROR", "LOADING"}
  /\ \E skipPage \in BOOLEAN : OpdsLoop("Back", skipPage)

\* C1: Back with an empty history exits the screen and fetches nothing; Back
\* with a non-empty history removes exactly the top location, makes it the
\* current location and reloads it; entering a listing pushes the location left.
\* So K entries and K Backs end at the original location with an empty history
\* (the history is empty only at the root), and one more Back exits.
C1_BackPopsOrExits ==
  /\ [][BackPass =>
          IF navigationHistory = << >>
            THEN /\ ipc' = "onExit"
                 /\ call' = NoCall
                 /\ UNCHANGED << navigationHistory, currentPath, state >>
            ELSE /\ navigationHistory' = Front(navigationHistory)
                 /\ currentPath' = Last(navigationHistory)
                 /\ state' = "LOADING"
                 /\ ipc' = "fetchUrl"
                 /\ call'.url.base = currentPath']_vars
  /\ [][Len(navigationHistory') > Len(navigationHistory) =>
          navigationHistory' = Append(navigationHistory, currentPath)]_vars
  /\ [](activity = "opds" /\ navigationHistory = << >> => currentPath = OPDS_ROOT_PATH)

\* a listing was entered, Back has led to the root again, and one more Back
\* has asked to leave the screen
C1_Witness ==
  /\ activity = "opds"
  /\ ipc = "onExit"
  /\ navigationHistory = << >>
  /\ currentPath = OPDS_ROOT_PATH
  /\ Len(leftIndex) = 1

\* C2 as stated: the listing Back returns to is shown with the selector index
\* it had when the user left it.
C2_SelectionRestored ==
  (activity = "opds" /\ state = "BROWSING" /\ Len(leftIndex) = Len(navigationHistory) + 1)
    => selectorIndex = Last(leftIndex)

\* C2 amended: the listing Back returns to is shown with the selection reset to
\* its first entry, whatever index it was left with.
C2_SelectionReset ==
  (activity = "opds" /\ state = "BROWSING" /\ Len(leftIndex) = Len(navigationHistory) + 1)
    => selectorIndex = 0

\* Back has returned to a listing that was left from another than its first entry
C2_Witness ==
  /\ activity = "opds"
  /\ state = "BROWSING"
  /\ Len(leftIndex) = Len(navigationHistory) + 1
  /\ Last(leftIndex) # 0

(***************************************************************************)
(* The two tasks                                                           *)
(***************************************************************************)
\* C3: while a render is in progress (the display task holds renderingMutex)
\* the input task changes none of state, entries, selectorIndex, and render()
\* never reads entries[selectorIndex] outside the entry list.
C3_RenderReadsUnderLock ==
  /\ [][(renderingMutex = "display" /\ renderingMutex' = "display")
          => UNCHANGED << state, entries, selectorIndex >>]_vars
  /\ [](~renderFault)

\* C4: the input task is never inside a network or storage operation; fetch,
\* download and cache invalidation are the display task's work.
C4_InputTaskNeverBlocks == ipc \notin {"fetchUrl", "downloadToFile"}

\* the states a fetch or a download occupies
Busy == {"LOADING", "FETCHING_FEED", "DOWNLOADING"}

\* the return of the operation that occupies the state
Completion ==
  \/ state \in {"LOADING", "FETCHING_FEED"}
       /\ \E result \in FetchResults(call.url.base) : OpdsFetchReturn(result) \/ NewsFetchReturn(result)
  \/ state = "DOWNLOADING"
       /\ \E result \in DownloadResults : OpdsDownloadReturn(result) \/ NewsDownloadReturn(result)

C10_ParentSilentDuringWifiSelection ==
  (state = "WIFI_SELECTION" /\ subActivity) => dpc \notin RenderPcs

(***************************************************************************)
(* Downloads and failures                                                  *)
(***************************************************************************)
\* C6: a download that succeeds has removed the cache folder of its destination
\* file, and of no other file, when the state leaves DOWNLOADING; a download that
\* fails leaves every cache folder in place; nothing else removes a cache folder.
C6_DownloadInvalidatesCache ==
  /\ [][(state = "DOWNLOADING" /\ state' # "DOWNLOADING") =>
          IF state' \in {"BROWSING", "COMPLETE"}
            THEN /\ call.dest \in files'
                 /\ cache' = cache \ {call.dest}
            ELSE /\ state' = "ERROR"
                 /\ cache' = cache]_vars
  /\ [][cache' # cache => state = "DOWNLOADING" /\ state' \in {"BROWSING", "COMPLETE"}]_vars

\* a file that had a cache folder has been downloaded again and has none now
C6_Witness ==
  /\ state \in {"BROWSING", "COMPLETE"}
  /\ ipc = "loop"
  /\ \E d \in files : cache = Dests \ {d}

\* a pass of loop() that observes Confirm
ConfirmPass ==
  \/ \E skipPage \in BOOLEAN : OpdsLoop("Confirm", skipPage)
  \/ NewsLoop("Confirm")

\* the href downloadBook and downloadEntry fetch for an entry
downloadHrefOf(entry) == IF entry.hrefXtc # NoHref THEN entry.hrefXtc ELSE entry.href

RetryPass ==
  /\ activity = "opds"
  /\ state = "ERROR"
  /\ \E skipPage \in BOOLEAN : OpdsLoop("Confirm", skipPage)

\* C8: retry fetches the current location when the WiFi is connected and opens
\* the WiFi selection when it is not; the selection fetches that same location
\* when it ends connected and goes to Error without a fetch when it does not; no
\* fetch starts on the retry path with the WiFi not connected.
C8_RetryChecksWifiFirst ==
  /\ [][RetryPass =>
          /\ UNCHANGED << currentPath, navigationHistory >>
          /\ IF ~wifi THEN state' = "WIFI_SELECTION" /\ subActivity' /\ call' = NoCall
             ELSE IF serverUrl THEN state' = "LOADING" /\ ipc' = "fetchUrl" /\ call'.url.base = currentPath
             ELSE state' = "ERROR" /\ call' = NoCall]_vars
  /\ [][(activity = "opds" /\ state = "WIFI_SELECTION" /\ state' # "WIFI_SELECTION") =>
          /\ UNCHANGED << currentPath, navigationHistory >>
          /\ IF wifi' /\ serverUrl
               THEN state' = "LOADING" /\ ipc' = "fetchUrl" /\ call'.url.base = currentPath
               ELSE state' = "ERROR" /\ call' = NoCall]_vars
  /\ [][(activity = "opds" /\ state \in {"ERROR", "WIFI_SELECTION"} /\ call' # NoCall
          /\ navigationHistory' = navigationHistory) => wifi']_vars

\* the WiFi selection is open, and not from onEnter: a retry has opened it
C8_Witness ==
  /\ activity = "opds"
  /\ state = "WIFI_SELECTION"
  /\ subActivity
  /\ navigationHistory # << >>

\* a step of navigateToEntry
PushStep ==
  /\ state = "BROWSING"
  /\ ConfirmPass
  /\ navigationHistory' = Append(navigationHistory, currentPath)

\* a step of navigateBack
PopStep ==
  /\ BackPass
  /\ navigationHistory # << >>
  /\ navigationHistory' = Front(navigationHistory)
  /\ currentPath' = Last(navigationHistory)

\* C9: while the catalog browser is open, the return of a fetch and the start
\* and the return of a download, succeeding or failing, leave the navigation
\* history and the current location as they are; only navigateToEntry and
\* navigateBack change them.
C9_FailureKeepsStack ==
  [][(activity = "opds" /\ activity' = "opds") =>
       /\ (state \in Busy \/ state' = "DOWNLOADING") => UNCHANGED << navigationHistory, currentPath >>
       /\ (<< navigationHistory, currentPath >>' # << navigationHistory, currentPath >>)
            => (PushStep \/ PopStep)]_vars

\* a download has failed inside a nested listing and the history is still there
C9_Witness ==
  /\ activity = "opds"
  /\ state = "ERROR"
  /\ errorMessage = "Download failed"
  /\ navigationHistory # << >>

(***************************************************************************)
(* The rendering lock                                                      *)
(***************************************************************************)
\* the display task is between xSemaphoreTake and xSemaphoreGive
InRender == dpc \in RenderPcs \cup {"give"}

\* a sub-activity is entered
Launch == subActivityType' # "" /\ subActivityType' # subActivityType

\* C11 as stated: apart from the teardown, renderingMutex is held by the display
\* task alone, around one render(), and no sub-activity is launched and no fetch
\* or download runs in the task that holds it.
C11_LockOnlyAroundRender ==
  /\ [](renderingMutex \in {"null", "free", "display"})
  /\ [](renderingMutex = "display" <=> InRender)
  /\ [][Launch => renderingMutex # "input"]_vars

\* C11 amended: the display task holds renderingMutex exactly around one
\* render(); in the catalog browser and in news sync the input task never holds
\* it; in the Calibre settings handleSelection takes it in the input task and
\* holds it across the launch of the sub-activity; the CalibreWirelessActivity
\* the WiFi callback launches is launched without it; no fetch or download runs
\* in the task that holds it.
C11_LockAroundRenderOrLaunch ==
  /\ [](renderingMutex = "display" <=> InRender)
  /\ [](renderingMutex = "input" => activity = "settings" /\ ipc = "handleSelection")
  /\ [](ipc \in {"fetchUrl", "downloadToFile"} => renderingMutex # "input")
  /\ [][Launch =>
          IF activity = "settings" /\ ~subActivity
            THEN renderingMutex = "input" /\ renderingMutex' = "free"
            ELSE renderingMutex # "input" /\ renderingMutex' # "input"]_vars

\* handleSelection holds the lock, about to launch, and the display task waits
\* for it
C11_Witness ==
  /\ activity = "settings"
  /\ ipc = "handleSelection"
  /\ renderingMutex = "input"
  /\ dpc = "take"

(***************************************************************************)
(* Selector moves                                                          *)
(***************************************************************************)
\* the length of the list the screen shows and the index of its selection
listLength == IF activity = "settings" THEN MENU_ITEMS ELSE Len(entries)

listIndex == IF activity = "settings" THEN selectedIndex ELSE selectorIndex

\* a pass of loop() that observes a short press of the button
SingleStep(b) ==
  \/ OpdsLoop(b, FALSE)
  \/ NewsLoop(b)
  \/ SettingsLoop(b)

\* the selection after loop() has observed a short press of b and then of c
afterTwo(b, c) ==
  IF activity = "opds" THEN loop(loop(This, b, FALSE), c, FALSE).selectorIndex
  ELSE IF activity = "news" THEN newsLoop(newsLoop(This, b), c).selectorIndex
  ELSE settingsLoop(settingsLoop(This, b), c).selectedIndex

\* C12: in the three list screens a single-step move wraps modulo the list
\* length: next from the last index gives 0 and otherwise adds one, previous
\* from 0 gives the last index and otherwise subtracts one, and next followed by
\* previous restores the index.
C12_SingleStepWraps ==
  /\ [][SingleStep("Next") =>
          listIndex' = (IF listIndex = listLength - 1 THEN 0 ELSE listIndex + 1)]_vars
  /\ [][SingleStep("Prev") =>
          listIndex' = (IF listIndex = 0 THEN listLength - 1 ELSE listIndex - 1)]_vars
  /\ [](afterTwo("Next", "Prev") = listIndex)

\* a move has put the selection on the last entry of a listing longer than two pages
C12_Witness ==
  /\ activity = "opds"
  /\ updateRequired
  /\ Len(entries) > 2 * PAGE_ITEMS
  /\ selectorIndex = Len(entries) - 1

\* the page of the selected entry and the last page of the listing
page == selectorIndex \div PAGE_ITEMS

lastPage == (Len(entries) - 1) \div PAGE_ITEMS

\* a pass of the catalog browser's loop() that observes the release of b after a
\* hold longer than SKIP_PAGE_MS
SkipStep(b) == OpdsLoop(b, TRUE)

\* C13 as stated: a page skip forward lands on the first entry of the next page,
\* or of the first page from the last page; backward on the first entry of the
\* previous page, or of the last page from the first page; the result is the
\* first index of a page.
C13_PageSkipLandsOnPageStart ==
  /\ [][SkipStep("Next") =>
          selectorIndex' = (IF page = lastPage THEN 0 ELSE (page + 1) * PAGE_ITEMS)]_vars
  /\ [][SkipStep("Prev") =>
          selectorIndex' = (IF page = 0 THEN lastPage * PAGE_ITEMS ELSE (page - 1) * PAGE_ITEMS)]_vars
  /\ [][(SkipStep("Next") \/ SkipStep("Prev")) => selectorIndex' % PAGE_ITEMS = 0]_vars

(***************************************************************************)
(* The Error state                                                         *)
(***************************************************************************)
\* the state becomes ERROR
EntersError == state' = "ERROR" /\ state # "ERROR"

corr(s) ==
  IF s = "FETCHING_FEED" THEN "LOADING"
  ELSE IF s = "SELECT_SOURCE" THEN "BROWSING"
  ELSE s

Listing2 == activity \in {"opds", "news"}

FetchFailed ==
  \E result \in {"fetch_failed", "parse_failed"} : OpdsFetchReturn(result) \/ NewsFetchReturn(result)

FetchOk == OpdsFetchReturn("ok") \/ NewsFetchReturn("ok")

DownloadFailed ==
  \E result \in DownloadResults \ {"OK"} : OpdsDownloadReturn(result) \/ NewsDownloadReturn(result)

DownloadOk == OpdsDownloadReturn("OK") \/ NewsDownloadReturn("OK")

WifiDone(connected) ==
  OpdsWifiSelectionComplete(connected) \/ NewsWifiSelectionComplete(connected)

AnyBackPass == (\E skipPage \in BOOLEAN : OpdsLoop("Back", skipPage)) \/ NewsLoop("Back")

\* the transitions the two screens have in common
SharedTransitions ==
  /\ FetchFailed => state' = "ERROR"
  /\ FetchOk => /\ corr(state') \in {"BROWSING", "ERROR"}
                /\ corr(state') = "BROWSING" => entries' # << >> /\ selectorIndex' = 0
  /\ DownloadFailed => state' = "ERROR"
  /\ WifiDone(FALSE) => state' = "ERROR"
  /\ WifiDone(TRUE) => IF serverUrl THEN corr(state') = "LOADING" ELSE state' = "ERROR"
  /\ (corr(state) \in {"BROWSING", "ERROR"} /\ AnyBackPass /\ navigationHistory = << >>)
       => ipc' = "onExit"

\* a pass of loop() that observes Confirm on a book entry of the listing
ConfirmOnBook ==
  /\ corr(state) = "BROWSING"
  /\ ConfirmPass
  /\ entries # << >>
  /\ entries[selectorIndex + 1].type = "BOOK"

\* what the catalog browser does after a download, on a book entry and on retry
BrowserTransitions ==
  /\ DownloadOk => corr(state') = "BROWSING"
  /\ ConfirmOnBook => state' = "DOWNLOADING"
  /\ (state = "ERROR" /\ ConfirmPass) =>
       IF ~wifi THEN state' = "WIFI_SELECTION"
       ELSE IF serverUrl THEN corr(state') = "LOADING"
       ELSE state' = "ERROR"

\* the file downloadEntry writes for the selected entry
newsDest ==
  [dir |-> "/News/", name |-> entries[selectorIndex + 1].title,
   ext |-> extensionOf(downloadHrefOf(entries[selectorIndex + 1]))]

\* what news sync does in their place
SyncTransitions ==
  /\ DownloadOk => state' = "COMPLETE"
  /\ ConfirmOnBook => state' = (IF newsDest \in files THEN "COMPLETE" ELSE "DOWNLOADING")
  /\ (state \in {"ERROR", "COMPLETE"} /\ ConfirmPass) =>
       IF entries # << >> THEN state' = "SELECT_SOURCE" ELSE ipc' = "onExit"
  /\ (state = "COMPLETE" /\ AnyBackPass) => ipc' = "onExit"

slotOk(slot) == slot.index = -1 \/ slot.page = loadPage(slot.index)

inSlots(n) == current.index = n \/ adjacent.index = n

\* C16: whatever page turns and jumps came before, the page served for the
\* requested index N is the page loaded for N; a page is served from a slot
\* only if that slot's stored index is N, and when no slot's index is N the
\* page is loaded afresh into current.
C16_ServedIsLoadedForIndex ==
  /\ [](slotOk(current) /\ slotOk(adjacent))
  /\ [](served.index # -1 => served.page = loadPage(served.index))
  /\ [][ReaderRenderPage =>
          /\ served'.index = requested
          /\ served'.page = loadPage(requested)
          /\ ~served'.sync => inSlots(requested)
          /\ ~inSlots(requested) =>
               /\ served'.sync
               /\ current' = [index |-> requested, page |-> loadPage(requested)]]_vars

C16_Witness ==
  /\ ~pending
  /\ served.index = PageCount - 1
  /\ ~served.sync
  /\ current.index = PageCount - 1
  /\ adjacent.index = PageCount - 2

\* page N has been rendered and its neighbour, now requested, is in adjacent
AdjacentReady ==
  /\ served.index # -1
  /\ distance(requested, served.index) = 1
  /\ adjacent.index = requested

C18_JumpInvalidatesBothSlots ==
  [][ReaderRenderPage /\ largeJump(requested, lastMove, served) =>
        /\ served'.sync
        /\ served'.index = requested
        /\ served'.page = loadPage(requested)
        /\ current' = [index |-> requested, page |-> loadPage(requested)]
        /\ adjacent' = EmptySlot]_vars

C18_Witness ==
  /\ pending
  /\ lastMove = "jump"
  /\ served.index # -1
  /\ adjacent.index = requested

(***************************************************************************)
(* The browser extension                                                   *)
(***************************************************************************)
\* the number of capture tabs requested for a URL
attemptsOf(url) == Cardinality({j \in 1..Len(attempts) : attempts[j] = url})

\* Update Book with bulk capture ran to its response
BulkDone ==
  /\ swPc = "done"
  /\ popupMessage = [action |-> "updateBook", bulkCapture |-> TRUE]
  /\ snapshot.saved
  /\ response # "error"

\* C19: with bulk capture enabled, when Update Book has answered, every item of
\* the snapshot list just sent has had exactly one capture attempt.
C19_EverySnapshotItemAttempted ==
  BulkDone => \A i \in 1..Len(snapshot.items) : attemptsOf(snapshot.items[i]) = 1

\* C20: when Readability fails (it throws or yields no content), the content
\* Send Article sends is the page's full HTML, and the article handed to the
\* service worker always has non-empty content.
C20_FallbackIsFullHtml ==
  article # NoArticle =>
    /\ ~readabilitySucceeded(doc) => article.content_html = outerHTML
    /\ ~article.content_html.empty
    /\ response = "Article sent." => payload = article.content_html

(***************************************************************************)
(* Downloads                                                               *)
(***************************************************************************)
\* a pass of NewsSyncActivity::loop() that observes Confirm in the source list
NewsSelect ==
  /\ activity = "news"
  /\ state = "SELECT_SOURCE"
  /\ entries # << >>
  /\ NewsLoop("Confirm")

\* C21: news sync skips the download of the selected entry only when its
\* destination file exists and is complete; otherwise it downloads the entry,
\* in particular when an earlier download left the file incomplete.
C21_SkipOnlyCompleteFile ==
  [][NewsSelect =>
       IF newsDest \in files /\ newsDest \notin truncated
         THEN state' = "COMPLETE" /\ call' = NoCall
         ELSE /\ state' = "DOWNLOADING"
              /\ ipc' = "downloadToFile"
              /\ call'.dest = newsDest]_vars

\* a pass of loop() that starts the download of the selected book
DownloadStarts ==
  /\ ConfirmOnBook
  /\ ipc' = "downloadToFile"

\* C22: in both screens the download of an entry that offers a pre-rendered
\* (XTC/XTCH) href fetches that href, and the download of an entry that offers
\* none fetches the default href.
C22_PreRenderedHrefPreferred ==
  [][DownloadStarts =>
       LET entry == entries[selectorIndex + 1] IN
       /\ entry.hrefXtc # NoHref => call'.url = entry.hrefXtc
       /\ entry.hrefXtc = NoHref => call'.url = entry.href
       /\ call'.url # NoHref]_vars

C22_Witness ==
  /\ activity = "opds"
  /\ ipc = "downloadToFile"
  /\ entries[1].hrefXtc # NoHref
  /\ entries[1].hrefXtc # entries[1].href
  /\ call.url = entries[1].hrefXtc

(***************************************************************************)
(* The catalog browser's listing                                           *)
(***************************************************************************)
\* loop() is about to run with the catalog browser in BROWSING
LoopInBrowsing ==
  /\ activity = "opds"
  /\ ipc = "loop"
  /\ state = "BROWSING"

\* C23: whenever loop() observes BROWSING, the entry list is not empty and
\* selectorIndex is below its length; a fetch enters BROWSING only when fetch
\* and parse succeeded with at least one entry, and then with selectorIndex 0.
C23_BrowsingHasValidSelection ==
  /\ [](LoopInBrowsing => entries # << >> /\ selectorIndex \in 0..(Len(entries) - 1))
  /\ [][\A result \in FetchResults(call.url.base) :
          OpdsFetchReturn(result) =>
            IF result = "ok" /\ Catalog[call.url.base] # << >>
              THEN /\ state' = "BROWSING"
                   /\ entries' = Catalog[call.url.base]
                   /\ selectorIndex' = 0
              ELSE state' = "ERROR"]_vars

C23_Witness ==
  /\ LoopInBrowsing
  /\ navigationHistory # << >>
  /\ selectorIndex = Len(entries) - 1
  /\ files # {}

(***************************************************************************)
(* The display task                                                        *)
(***************************************************************************)
\* the display task exists and updateRequired is set
UpdatePending == displayTaskHandle /\ updateRequired

C26_SettingsRenderOnlyWithoutSubActivity ==
  (activity = "settings" /\ dpc = "render") => ~subActivity

(***************************************************************************)
(* The listing around a download                                           *)
(***************************************************************************)
\* the entry list, the selection and the location of the catalog browser
ListingVars == << entries, selectorIndex, currentPath, navigationHistory >>

\* a pass of the catalog browser's loop() that starts a download
OpdsDownloadStarts ==
  /\ activity = "opds"
  /\ state = "BROWSING"
  /\ \E skipPage \in BOOLEAN : OpdsLoop("Confirm", skipPage)
  /\ ipc' = "downloadToFile"

\* C27: a successful download returns the catalog browser to BROWSING with the
\* entry list, the selector index, the current location and the navigation
\* history as they were immediately before the download was started: starting
\* the download changes none of them, nothing changes them while the state is
\* DOWNLOADING, and the successful return sets the state to BROWSING and
\* changes none of them.
C27_DownloadKeepsListing ==
  /\ [][OpdsDownloadStarts => state' = "DOWNLOADING" /\ UNCHANGED ListingVars]_vars
  /\ [][(activity = "opds" /\ state = "DOWNLOADING" /\ state' = "DOWNLOADING")
          => UNCHANGED ListingVars]_vars
  /\ [][(activity = "opds" /\ state = "DOWNLOADING" /\ state' # "DOWNLOADING")
          => \E result \in DownloadResults : OpdsDownloadReturn(result)]_vars
  /\ [][OpdsDownloadReturn("OK") => state' = "BROWSING" /\ UNCHANGED ListingVars]_vars

\* the catalog browser is back in the listing of the shelf, on the second
\* entry, after the download of that entry
C27_Witness ==
  /\ activity = "opds"
  /\ ipc = "loop"
  /\ state = "BROWSING"
  /\ statusMessage = "A"
  /\ selectorIndex = 1
  /\ currentPath = "shelf"
  /\ navigationHistory = << OPDS_ROOT_PATH >>
  /\ [dir |-> "/", name |-> "A", ext |-> ".xtc"] \in files


\* a pass of loop() that observes Back in the Error state a failed download
\* of the catalog browser has left
BackAfterFailedDownload ==
  /\ activity = "opds"
  /\ state = "ERROR"
  /\ errorMessage = "Download failed"
  /\ \E skipPage \in BOOLEAN : OpdsLoop("Back", skipPage)

\* C28 as stated: Back in the Error state a failed download has left returns to
\* the listing in which the download was started; it does not pop the
\* navigation history and does not exit the screen.
C28_BackReturnsToListing ==
  [][BackAfterFailedDownload =>
       /\ state' = "BROWSING"
       /\ ipc' = "loop"
       /\ UNCHANGED ListingVars]_vars

\* C28 amended: Back in the Error state a failed download has left is handled
\* by navigateBack: with a non-empty navigation history it pops the top
\* location, makes it the current location, empties the entry list and reloads
\* that previous listing; with an empty history it exits the screen. The
\* listing in which the download was started is not shown again.
C28_BackPopsOrExits ==
  [][BackAfterFailedDownload =>
       IF navigationHistory = << >>
         THEN /\ ipc' = "onExit"
              /\ call' = NoCall
              /\ UNCHANGED << state, ListingVars >>
         ELSE /\ navigationHistory' = Front(navigationHistory)
              /\ currentPath' = Last(navigationHistory)
              /\ state' = "LOADING"
              /\ entries' = << >>
              /\ selectorIndex' = 0
              /\ ipc' = "fetchUrl"
              /\ call'.url.base = Last(navigationHistory)]_vars

\* a download started in the shelf has failed and left a truncated file, and
\* the catalog browser is loading the root listing again with an empty history
C28_Witness ==
  /\ activity = "opds"
  /\ ipc = "fetchUrl"
  /\ state = "LOADING"
  /\ currentPath = OPDS_ROOT_PATH
  /\ navigationHistory = << >>
  /\ [dir |-> "/", name |-> "A", ext |-> ".xtc"] \in truncated


(***************************************************************************)
(* Input while a feed is loading                                           *)
(***************************************************************************)
\* a pass of the catalog browser's loop() with the state LOADING
LoopInLoading(b) ==
  /\ activity = "opds"
  /\ state = "LOADING"
  /\ \E skipPage \in BOOLEAN : OpdsLoop(b, skipPage)

\* C29: while a feed is loading only Back works and it takes effect: loop()
\* runs while the state is LOADING, a Back press is then handled by
\* navigateBack (home on an empty history, otherwise the history is popped
\* and the previous listing fetched), and every other input changes nothing.
C29_BackWorksWhileLoading ==
  /\ []((activity = "opds" /\ state = "LOADING") => ENABLED LoopInLoading("Back"))
  /\ [][LoopInLoading("Back") =>
          IF navigationHistory = << >>
            THEN ipc' = "onExit"
            ELSE /\ navigationHistory' = Front(navigationHistory)
                 /\ currentPath' = Last(navigationHistory)
                 /\ ipc' = "fetchUrl"]_vars
  /\ [][(\E b \in {"Confirm", "Prev", "Next"} : LoopInLoading(b))
          => UNCHANGED << state, ListingVars, ipc, call >>]_vars


(***************************************************************************)
(* What render() draws                                                     *)
(***************************************************************************)
\* a step of render() inside the browsing view: the confirm label, the hints,
\* 'No entries found' or the entry list
DrawsBrowsingView ==
  RenderLabelEmpty \/ RenderLabelType \/ RenderNoEntries \/ RenderList

\* a step of render() that draws the screen of one of the other states
DrawsStateScreen ==
  /\ RenderCheckWifi \/ RenderLoading \/ RenderError \/ RenderDownloading
  /\ dpc' = "give"

\* C30: the catalog browser's render() draws the browsing view (entry list,
\* Open/Download hint or 'No entries found') only when the state is BROWSING;
\* in every other state it draws that state's own screen or nothing.
C30_BrowsingViewOnlyInBrowsing ==
  /\ [][DrawsBrowsingView => state = "BROWSING"]_vars
  /\ [][DrawsStateScreen => fb'.body = state]_vars


(***************************************************************************)
(* The arithmetic of the backward page skip                                *)
(***************************************************************************)
\* C31: for every list size >= 1 and every valid selectorIndex the backward
\* page skip, computed in 32-bit unsigned arithmetic, gives the mathematical
\* value ((selectorIndex div PAGE_ITEMS - 1) * PAGE_ITEMS) mod size, also when
\* the list is shorter than one page.
C31_BackwardSkipIsMathematicalMod ==
  [][SkipStep("Prev") =>
       selectorIndex' = ((page - 1) * PAGE_ITEMS) % Len(entries)]_vars


(***************************************************************************)
(* The browser extension: bulk capture                                     *)
(***************************************************************************)
\* bulkCapture has returned its results or has thrown
BulkOver ==
  /\ popupMessage = [action |-> "updateBook", bulkCapture |-> TRUE]
  /\ snapshot.saved
  /\ swPc \in {"build", "done"}

\* C32: when bulkCapture has returned or thrown, every tab it opened has been
\* closed and every User-Agent override listener it registered has been
\* removed, whatever happened to each item.
C32_TabsClosedListenersRemoved ==
  BulkOver => openTabs = {} /\ uaListeners = {}


\* C33: bulkCapture handles the items one at a time in list order (the capture
\* tabs are requested in the order of the list, one tab at a time); a failure
\* while handling an item, the tab removal included, is recorded as the error
\* result of that item and bulkCapture goes on: when it is over it has returned
\* (not thrown), every item of the list it works on has been attempted, and
\* the results hold one entry per attempted item, in order, an error entry
\* for each failing item.
C33_FailuresAreResults ==
  /\ attempts = SubSeq(limited, 1, Len(attempts))
  /\ Cardinality(openTabs \ stuck) <= 1
  /\ BulkOver =>
       /\ response # "error"
       /\ attempts = limited
       /\ Len(results) = Len(attempts)
       /\ \A i \in 1..Len(results) :
            /\ results[i].url = attempts[i]
            /\ results[i].status = "error" <=> attempts[i] \in broken


\* the issue build has been requested
BuildRequested ==
  \/ swPc = "build"
  \/ response \in {"Snapshot saved. Bulk captured. Issue built.",
                   "Snapshot saved. Bulk captured. Issue build failed"}

\* every item of the list has had a capture tab requested
AllAttempted == \A i \in 1..Len(items) : attemptsOf(items[i]) >= 1

\* C34: for Update Book with bulk capture the snapshot is posted before any
\* capture tab is opened; an issue build is requested only after every item has
\* been attempted, and, once the handler has answered, it has been requested if
\* and only if at least one item was ingested; if the snapshot post fails there
\* is no capture and no issue build.
C34_SnapshotCaptureBuildOrder ==
  /\ attempts # << >> => snapshot.saved /\ snapshot.items = items
  /\ BuildRequested => AllAttempted /\ ingested # {}
  /\ (swPc = "done" /\ popupMessage = [action |-> "updateBook", bulkCapture |-> TRUE])
       => (BuildRequested <=> ingested # {})
  /\ ~snapshot.saved => attempts = << >> /\ openTabs = {} /\ ~BuildRequested /\ issueBuilds = 0


(***************************************************************************)
(* The firefox service worker: sendMessageWithRetry                        *)
(***************************************************************************)
\* the send attempts of the call
sendsOf == Cardinality({i \in 1..Len(events) : events[i] = "send"})

\* C35: sendMessageWithRetry terminates after at most RETRY_ATTEMPTS send
\* attempts: an attempt after the first follows a connection error alone, any
\* other error is thrown at once, the first response is returned, and after
\* the last failed attempt the last error is thrown.
C35_RetryTerminates ==
  /\ [](sendsOf <= RETRY_ATTEMPTS)
  /\ []((sendPc = "send" /\ attempt > 0) => lastError = "connection")
  /\ [][TabsSendMessage("other") => sendPc' = "thrown" /\ sendResult' = "other"]_vars
  /\ [][TabsSendMessage("response") => sendPc' = "returned" /\ sendResult' = "response"]_vars
  /\ [](sendPc = "thrown" =>
          /\ sendResult = lastError
          /\ sendResult = "connection" => sendsOf = RETRY_ATTEMPTS)
  /\ (sendPc = "ensure") ~> (sendPc \in {"returned", "thrown"})

\* the fifth attempt has failed as the four before it and the call has thrown
C35_Witness ==
  /\ sendPc = "thrown"
  /\ sendResult = "connection"
  /\ sendsOf = RETRY_ATTEMPTS
  /\ attempt = RETRY_ATTEMPTS


\* C36: when the first send attempt has failed with a connection error, the
\* content scripts are injected into the tab before the next attempt: between
\* the first send of a call and its second there is an injection.
C36_InjectionBeforeSecondAttempt ==
  \A i, j \in 1..Len(events) :
    (/\ i < j
     /\ events[i] = "send"
     /\ events[j] = "send"
     /\ \A h \in 1..(i - 1) : events[h] # "send")
      => \E k \in (i + 1)..(j - 1) : events[k] = "inject"


(***************************************************************************)
(* The stored log                                                          *)
(***************************************************************************)
\* no appendLog call is in flight
LogQuiet == \A c \in LogCallers : ~InFlight(c)

\* the entry is in the stored log
Stored(e) == \E i \in 1..Len(logs) : logs[i] = e

\* the n most recently appended entries, oldest first
Latest(n) ==
  LET k == IF Len(appended) < n THEN Len(appended) ELSE n
  IN  [i \in 1..k |-> appended[Len(appended) - k + i]]

\* C37: after any sequence of appendLog calls that never overlap, the stored
\* log holds at most LOG_MAX entries, and they are the most recently
\* appended entries in the order of their appending
C37_LogKeepsLatestInOrder ==
  (LogQuiet /\ ~overlapped) =>
    /\ Len(logs) <= LOG_MAX
    /\ logs = Latest(LOG_MAX)

\* entries were appended one call after another to a full log, which dropped
\* its oldest entries
C37_Witness ==
  /\ LogQuiet
  /\ ~overlapped
  /\ logCalls = MaxLogCalls
  /\ Len(appended) > LOG_MAX
  /\ Len(logs) = LOG_MAX
  /\ logs[1] > 1
  /\ logs[LOG_MAX] = appended[Len(appended)]

\* C38: no entry is lost when appendLog calls overlap: once the calls that
\* were in flight together have returned, the entry of each of them is in
\* the stored log (as long as it is among the LOG_MAX most recently stored)
C38_OverlappingWritesKeepBoth ==
  LogQuiet =>
    \A i \in 1..Len(appended) :
      i > Len(appended) - LOG_MAX => Stored(appended[i])


(***************************************************************************)
(* Waiting for a capture tab                                               *)
(***************************************************************************)
\* C39: bulkCapture asks a capture tab for its article only after the tab
\* has finished loading the item's url: waitForTabLoad resolves only on the
\* load completion of the target page, never of the about:blank placeholder,
\* and it does not time out when the target page completed in time, however
\* the load events interleave with the registration of its listener
C39_WaitResolvesOnTargetLoad ==
  /\ loadPc = "captureArticleFromTab" =>
       /\ resolvedOn = "target"
       /\ tabPage = "target"
       /\ tabStatus = "complete"
  /\ loadPc = "timeout" => ~targetCompleted

=============================================================================
